---- MODULE Spec2Model ----
(***************************************************************************)
(* Message-processing pipeline and tool-execution coordinator of the      *)
(* repository: EnhancedPipeline (pipeline/EnhancedPipeline.ts),           *)
(* EnhancedMessageProcessor, MessageProcessor, ErrorHandlingService and   *)
(* EnhancedValidationStage.                                                *)
(*                                                                         *)
(* Time is Date.now() in milliseconds.  A Map is a function over the      *)
(* finite key universe; absent numeric entries are 0, which is how the    *)
(* code reads them (`map.get(k) || 0`, `if (lastExecution)`); absent list  *)
(* entries are <<>> (`map.get(k) || []`).                                  *)
(***************************************************************************)
EXTENDS Integers, Sequences, FiniteSets, TLC

(***************************************************************************)
(* Program constants                                                       *)
(***************************************************************************)
DEFAULT_TOOL_EXECUTION_TIME == 30000
EXTENDED_TOOL_EXECUTION_TIME == 120000
MAX_RETRIES == 5
MAX_SIMILAR_EXECUTIONS == 4
\* SIMILARITY_THRESHOLD = 0.8, held as a percentage
SIMILARITY_THRESHOLD_PCT == 80
LOOP_TIME_WINDOW == 300000

MAX_HISTORY_SIZE == 10
ERROR_THRESHOLD == 3
MIN_RETRY_DELAY == 1000
MAX_RETRY_DELAY == 10000
TIME_WINDOW == 300000
BURST_THRESHOLD == 3
\* analyzeErrorPatterns: memory > 1_000_000_000, cpu > 80
HIGH_MEMORY == 1000000000
HIGH_CPU == 80

STAGE_TIMEOUT == 30000
DEFAULT_STAGE_MAX_RETRIES == 3

(***************************************************************************)
(* Bounds of the model                                                     *)
(***************************************************************************)
\* number of tool calls explored on one processor
MaxCalls == 2
\* the clock is explored up to this many loop-detection windows
MaxWindows == 1

(***************************************************************************)
(* Generic helpers                                                         *)
(***************************************************************************)
Min2(a, b) == IF a < b THEN a ELSE b
Max2(a, b) == IF a > b THEN a ELSE b

RECURSIVE SumSeq(_)
SumSeq(s) == IF s = <<>> THEN 0 ELSE Head(s) + SumSeq(Tail(s))

RECURSIVE Pow(_, _)
Pow(b, e) == IF e = 0 THEN 1 ELSE b * Pow(b, e - 1)

CeilDiv(a, b) == (a + b - 1) \div b

Last(s) == s[Len(s)]

Contains(s, x) == \E i \in 1..Len(s) : s[i] = x

\* index of the first occurrence of x in s (0 when absent): Array.indexOf + 1
RECURSIVE IndexFrom(_, _, _)
IndexFrom(s, x, i) ==
    IF i > Len(s) THEN 0 ELSE IF s[i] = x THEN i ELSE IndexFrom(s, x, i + 1)
IndexOf(s, x) == IndexFrom(s, x, 1)

RemoveAt(s, i) == SubSeq(s, 1, i - 1) \o SubSeq(s, i + 1, Len(s))

\* Array.push followed by `if (length > cap) shift()`
PushCapped(s, x, cap) ==
    LET t == Append(s, x) IN IF Len(t) > cap THEN Tail(t) ELSE t

(***************************************************************************)
(* ErrorHandlingService (the variant that takes enhanced error entries,   *)
(* which is what EnhancedMessageProcessor passes).                         *)
(*                                                                         *)
(* An error message is modelled by the set of the screened substrings it  *)
(* contains (after toLowerCase), which is all categorizeError reads.       *)
(* An error entry is [message, timestamp, memory, cpu].                    *)
(***************************************************************************)
Keywords ==
    {"timeout", "timed out", "validation", "invalid", "permission", "access",
     "not found", "missing", "system", "internal"}

categorizeError(errorMessage) ==
    IF "timeout" \in errorMessage \/ "timed out" \in errorMessage THEN "timeout"
    ELSE IF "validation" \in errorMessage \/ "invalid" \in errorMessage THEN "validation"
    ELSE IF "permission" \in errorMessage \/ "access" \in errorMessage THEN "permission"
    ELSE IF "not found" \in errorMessage \/ "missing" \in errorMessage THEN "resource"
    ELSE IF "system" \in errorMessage \/ "internal" \in errorMessage THEN "system"
    ELSE "unknown"

EmptyToolMetrics ==
    [successCount |-> 0, failureCount |-> 0, lastNExecutionTimes |-> <<>>]

\* avgExecutionTime is recomputed from lastNExecutionTimes on every update,
\* so it is not stored: see AvgExecutionTimeAbove.
updateToolPerformance(stats, executionTime, success) ==
    [successCount |-> stats.successCount + (IF success THEN 1 ELSE 0),
     failureCount |-> stats.failureCount + (IF success THEN 0 ELSE 1),
     lastNExecutionTimes |->
         PushCapped(stats.lastNExecutionTimes, executionTime, MAX_HISTORY_SIZE)]

\* avgExecutionTime > limit
AvgExecutionTimeAbove(stats, limit) ==
    /\ Len(stats.lastNExecutionTimes) > 0
    /\ SumSeq(stats.lastNExecutionTimes) > limit * Len(stats.lastNExecutionTimes)

\* The delay in ms, rounded up to a whole millisecond: the only fractional
\* value is 5062.5, and it is only ever compared with integer clock
\* differences, for which `d < 5062.5` and `d < 5063` agree.
calculateBackoffDelay(stats, retryCount) ==
    LET \* errorRate > 0.5 (0/0 is NaN, which compares false)
        HighErrorRate(total) == total > 0 /\ 2 * stats.failureCount > total
        \* the two `*= 1.5` adjustments and the final Math.min, on num/den
        Adjusted(num, den, f1, f2) ==
            IF num * f1 * f2 > MAX_RETRY_DELAY * den * (IF f1 = 3 THEN 2 ELSE 1)
                                                     * (IF f2 = 3 THEN 2 ELSE 1)
            THEN MAX_RETRY_DELAY
            ELSE CeilDiv(num * f1 * f2,
                         den * (IF f1 = 3 THEN 2 ELSE 1) * (IF f2 = 3 THEN 2 ELSE 1))
        \* Math.min(MIN_RETRY_DELAY * 1.5^retryCount, MAX_RETRY_DELAY) as num/den
        Base(rawNum, rawDen) ==
            Adjusted(IF rawNum > MAX_RETRY_DELAY * rawDen THEN MAX_RETRY_DELAY ELSE rawNum,
                     IF rawNum > MAX_RETRY_DELAY * rawDen THEN 1 ELSE rawDen,
                     IF HighErrorRate(stats.successCount + stats.failureCount)
                     THEN 3 ELSE 1,
                     IF AvgExecutionTimeAbove(stats, MAX_RETRY_DELAY \div 2) THEN 3 ELSE 1)
    IN  Base(MIN_RETRY_DELAY * Pow(3, retryCount), Pow(2, retryCount))

RECURSIVE InsertSorted(_, _)
InsertSorted(s, x) ==
    IF s = <<>> THEN <<x>>
    ELSE IF x < Head(s) THEN <<x>> \o s
    ELSE <<Head(s)>> \o InsertSorted(Tail(s), x)

RECURSIVE SortAsc(_)
SortAsc(s) == IF s = <<>> THEN <<>> ELSE InsertSorted(SortAsc(Tail(s)), Head(s))

\* Clock readings of the model are whole multiples of MIN_RETRY_DELAY apart,
\* so gaps are counted in that unit; the ratio stdDev / avg does not depend
\* on the unit.
GapUnits(gap) == gap \div MIN_RETRY_DELAY

analyzeErrorTiming(errors, nowT) ==
    LET Gaps(ts) == [i \in 1..(Len(ts) - 1) |-> ts[i + 1] - ts[i]]
        Units(timeGaps) == [i \in 1..Len(timeGaps) |-> GapUnits(timeGaps[i])]
        \* stdDev / avg < 0.5  <=>  4 * sum (g*gap - total)^2 < g * total^2
        \* (avg = 0 gives 0/0 = NaN, which compares false)
        Regular(u, g, su) ==
            /\ su > 0
            /\ 4 * SumSeq([i \in 1..g |-> (g * u[i] - su) * (g * u[i] - su)]) < g * su * su
        RegularGaps(u) == Regular(u, Len(u), SumSeq(u))
        Timing(ts, timeGaps) ==
            IF Len(ts) < 2
            THEN [hasBurst |-> FALSE, rapid |-> TRUE, isRegularPattern |-> FALSE]
            ELSE [hasBurst |->
                      Cardinality({i \in 1..Len(ts) : nowT - ts[i] < TIME_WINDOW})
                          >= BURST_THRESHOLD,
                  \* avgTimeBetweenErrors < 1000
                  rapid |-> SumSeq(timeGaps) < 1000 * Len(timeGaps),
                  isRegularPattern |-> RegularGaps(Units(timeGaps))]
        Sorted(ts) == Timing(ts, Gaps(ts))
    IN  Sorted(SortAsc([i \in 1..Len(errors) |-> errors[i].timestamp]))

calculateErrorSeverity(pattern, similar, count, isRecurring, timing) ==
    LET base == IF pattern = "system" \/ 10 * similar > 7 * count THEN "high"
                ELSE IF isRecurring \/ 10 * similar > 4 * count \/ pattern = "permission"
                     THEN "medium"
                     ELSE "low"
    IN  IF timing.hasBurst THEN "high"
        ELSE IF timing.isRegularPattern
             THEN (IF base = "low" THEN "medium" ELSE "high")
             ELSE base

analyzeErrorPatterns(errors, nowT) ==
    LET Similar(pattern) ==
            Cardinality({i \in 1..Len(errors) :
                            \/ errors[i].memory > HIGH_MEMORY
                            \/ errors[i].cpu > HIGH_CPU
                            \/ categorizeError(errors[i].message) = pattern})
        \* frequency = similar / count
        Result(pattern, similar, timing) ==
            [pattern |-> pattern,
             similar |-> similar,
             count |-> Len(errors),
             isRecurring |-> similar >= ERROR_THRESHOLD,
             severity |-> calculateErrorSeverity(pattern, similar, Len(errors),
                                                 similar >= ERROR_THRESHOLD, timing),
             timing |-> timing]
        WithPattern(pattern) ==
            Result(pattern, Similar(pattern), analyzeErrorTiming(errors, nowT))
    IN  WithPattern(categorizeError(Last(errors).message))

\* patternWeight, scaled by 100000
PatternWeight(errorPattern) ==
    LET base == IF errorPattern.pattern = "timeout" THEN 800
                ELSE IF errorPattern.pattern = "validation" THEN 700 ELSE 500
        w1 == IF errorPattern.timing.isRegularPattern THEN base * 7 ELSE base * 10
        w2 == IF errorPattern.timing.rapid THEN w1 * 5 ELSE w1 * 10
    IN  w2

\* successRate * patternWeight > 0.3 as the code's doubles decide it.  The
\* product is exact in the rationals except that 0.8 * 0.5 and 0.8 are not
\* representable: when successRate * 0.8 (* 0.5) is exactly 0.3 the double
\* product is 0.30000000000000004, which is > 0.3.
SuccessProbabilityClears(stats, errorPattern) ==
    LET total == stats.successCount + stats.failureCount
        w == PatternWeight(errorPattern)
        lhs == stats.successCount * w
        rhs == 30000 * total
        roundsUp == errorPattern.pattern = "timeout"
                    /\ ~errorPattern.timing.isRegularPattern
    IN  /\ total > 0
        /\ (lhs > rhs \/ (roundsUp /\ lhs = rhs))

\* the strategy without the burst refusal
RetryThroughBurst(stats, errorPattern, retryCount) ==
    IF errorPattern.pattern = "system" /\ errorPattern.severity = "high" THEN FALSE
    ELSE IF errorPattern.pattern = "permission" /\ errorPattern.isRecurring THEN FALSE
    ELSE IF retryCount >= ERROR_THRESHOLD THEN FALSE
    ELSE SuccessProbabilityClears(stats, errorPattern)

determineRetryStrategy(stats, errorPattern, retryCount) ==
    IF errorPattern.pattern = "system" /\ errorPattern.severity = "high" THEN FALSE
    ELSE IF errorPattern.pattern = "permission" /\ errorPattern.isRecurring THEN FALSE
    ELSE IF retryCount >= ERROR_THRESHOLD THEN FALSE
    ELSE IF errorPattern.timing.hasBurst THEN FALSE
    ELSE SuccessProbabilityClears(stats, errorPattern)

(***************************************************************************)
(* Strings, tool parameters and message contexts                           *)
(*                                                                         *)
(* A string is a sequence of one-character strings.  A params object is   *)
(* known by a name; ParamValue gives its `command` and `path` entries and *)
(* `keys` the entries that are present.  Tools are external               *)
(* implementations of the Tool interface; Validate is tool.validate.       *)
(***************************************************************************)
Undefined == "undefined"

\* String.prototype.includes
Includes(str, pattern) ==
    \E i \in 1..(Len(str) - Len(pattern) + 1) :
        SubSeq(str, i, i + Len(pattern) - 1) = pattern

\* String.prototype.startsWith
StartsWith(str, pattern) ==
    /\ Len(str) >= Len(pattern)
    /\ SubSeq(str, 1, Len(pattern)) = pattern

ToolNames == {"read_file", "execute_command"}
ParamNames == {"p1", "p2", "bad", "unsafe"}

ParamValue(p) ==
    IF p = "p1"
    THEN [keys |-> {"command", "path"}, command |-> <<"l", "s">>, path |-> <<"a">>]
    ELSE IF p = "p2"
    THEN [keys |-> {"command", "path"}, command |-> <<"l", "l">>, path |-> <<"a">>]
    ELSE IF p = "unsafe"
    THEN [keys |-> {"command", "path"},
          command |-> <<"r", "m", " ", "-", "r", "f">>,
          path |-> <<".", ".", "/", "a">>]
    ELSE [keys |-> {}, command |-> << >>, path |-> << >>]

Quoted(str) == <<"\"">> \o str \o <<"\"">>

\* JSON.stringify(params): absent entries are left out
Stringify(p) ==
    LET v == ParamValue(p)
        command == IF "command" \in v.keys
                   THEN Quoted(<<"c", "o", "m", "m", "a", "n", "d">>) \o <<":">>
                            \o Quoted(v.command)
                   ELSE << >>
        path == IF "path" \in v.keys
                THEN Quoted(<<"p", "a", "t", "h">>) \o <<":">> \o Quoted(v.path)
                ELSE << >>
        comma == IF command # << >> /\ path # << >> THEN <<",">> ELSE << >>
    IN  <<"{">> \o command \o comma \o path \o <<"}">>

\* tool.validate(params): the tools of the model want both entries
Validate(t, p) == ParamValue(p).keys = {"command", "path"}

\* the dangerousPatterns of validateToolSecurity, in the code's order
dangerousPatterns ==
    << <<";">>, <<"&", "&">>, <<"|", "|">>, <<"|">>, <<">">>, <<"<">>, <<"$", "(">>,
       <<"r", "m", " ", "-", "r", "f">>, <<"w", "g", "e", "t">>, <<"c", "u", "r", "l">>,
       <<"c", "h", "m", "o", "d">>, <<"s", "u", "d", "o">>, <<"s", "u">>,
       <<"e", "v", "a", "l">>, <<"e", "x", "e", "c">> >>

\* validateToolSecurity(toolExecution) returns at least one error
validateToolSecurity(toolName, params) ==
    LET v == ParamValue(params)
    IN  \/ /\ toolName = "execute_command"
           /\ "command" \in v.keys
           /\ \E k \in 1..Len(dangerousPatterns) : Includes(v.command, dangerousPatterns[k])
        \/ /\ toolName \in {"read_file", "write_to_file", "apply_diff"}
           /\ "path" \in v.keys
           /\ \/ Includes(v.path, <<".", ".">>)
              \/ StartsWith(v.path, <<"/">>)
              \/ StartsWith(v.path, <<"~">>)

\* context.toolExecution when there is none
NoToolExecution == [toolName |-> Undefined, params |-> Undefined]

\* A message is its plain text and the tool directive it embeds, if any:
\* `text <tool><param>value</param>...</tool>`.
NoDirective == [toolName |-> Undefined, params |-> Undefined]

MessageContexts(texts, directives, roots, requires, executions) ==
    [message : [text : texts, directive : directives],
     mode : {"code"},
     workingDirectory : roots,
     requiresToolExecution : requires,
     toolExecution : executions,
     metadata : {{}}]

\* a context that asks for tool t with params p and that validation accepts
ToolContext(t, p) ==
    [message |-> [text |-> <<"g", "o">>, directive |-> NoDirective],
     mode |-> "code",
     workingDirectory |-> <<"w">>,
     requiresToolExecution |-> TRUE,
     toolExecution |-> [toolName |-> t, params |-> p],
     metadata |-> {}]

\* EnhancedValidationStage.validateContext: the fields of the errors found.
\* (The checks of toolExecution.maxRetries, retryDelay, resourceLimits and
\* errorHandling read entries that the contexts of the model leave unset.)
validateContext(context) ==
    (IF context.message.text = << >> /\ context.message.directive = NoDirective
     THEN {"message"} ELSE {})
    \cup (IF context.mode = "" THEN {"mode"} ELSE {})
    \cup (IF context.workingDirectory = << >>
          THEN {"environment.workingDirectory"} ELSE {})
    \cup (IF ~context.requiresToolExecution THEN {}
          ELSE IF context.toolExecution = NoToolExecution THEN {"toolExecution"}
          ELSE (IF context.toolExecution.toolName = ""
                THEN {"toolExecution.toolName"} ELSE {})
               \cup (IF context.toolExecution.params = Undefined
                     THEN {"toolExecution.params"}
                     ELSE IF validateToolSecurity(context.toolExecution.toolName,
                                                  context.toolExecution.params)
                          THEN {"security"} ELSE {}))

\* ToolParserStage.process
ToolParserProcess(context) ==
    IF context.message.directive = NoDirective THEN context
    ELSE [context EXCEPT
             !.requiresToolExecution = TRUE,
             !.toolExecution = context.message.directive,
             !.message = [text |-> context.message.text, directive |-> NoDirective]]

\* result.content values a tool may return ("" included)
ContentSet == {<< >>, <<"o", "k">>, Stringify("p2")}

\* process.memoryUsage().heapUsed / cpuUsage() readings taken in the catch block
ResourceSamples ==
    {[memory |-> 50000000, cpu |-> 40], [memory |-> 1500000000, cpu |-> 2000]}

\* messages of errors thrown by tools and hooks
ThrownMessages == {{}, {"permission"}, {"system"}, {"timeout"}}

\* messages of the coordinator's own errors
InvalidParametersMessage == {"invalid"}
ToolDisabledMessage == {"disabled"}
LoopDetectedMessage == {"loop"}
TimedOutMessage == {"timed out"}
InTimeoutMessage == {"timeout"}
NotFoundMessage == {"not found"}

toolTimeoutOverrides(t) ==
    IF t \in {"browser_action", "execute_command", "apply_diff"}
    THEN EXTENDED_TOOL_EXECUTION_TIME ELSE 0

\* this.toolTimeoutOverrides.get(toolName) || this.DEFAULT_TOOL_EXECUTION_TIME
ToolTimeout(t) ==
    IF toolTimeoutOverrides(t) # 0 THEN toolTimeoutOverrides(t)
    ELSE DEFAULT_TOOL_EXECUTION_TIME

(***************************************************************************)
(* calculateSimilarity: Levenshtein distance, row by row                   *)
(***************************************************************************)
\* cells 0..j-1 of the current row are acc[1..j]; prev is the previous row
RECURSIVE LevRow(_, _, _, _)
LevRow(prev, c, str2, acc) ==
    IF Len(acc) > Len(str2) THEN acc
    ELSE LET j == Len(acc)
             cell == IF c = str2[j] THEN prev[j]
                     ELSE Min2(prev[j] + 1, Min2(acc[j] + 1, prev[j + 1] + 1))
         IN  LevRow(prev, c, str2, Append(acc, cell))

\* prev is row i - 1 of the matrix; its first entry is i - 1
RECURSIVE LevRows(_, _, _)
LevRows(str1, str2, prev) ==
    IF prev[1] >= Len(str1) THEN prev
    ELSE LevRows(str1, str2, LevRow(prev, str1[prev[1] + 1], str2, <<prev[1] + 1>>))

LevenshteinDistance(str1, str2) ==
    Last(LevRows(str1, str2, [j \in 1..(Len(str2) + 1) |-> j - 1]))

\* calculateSimilarity(str1, str2) > SIMILARITY_THRESHOLD
\* (two empty strings give 1 - 0/0 = NaN, which compares false)
SimilarityAboveThreshold(str1, str2) ==
    LET maxLength == Max2(Len(str1), Len(str2))
    IN  /\ maxLength > 0
        /\ 100 * (maxLength - LevenshteinDistance(str1, str2))
               > SIMILARITY_THRESHOLD_PCT * maxLength

\* the filter of executeTool that selects the similar recent executions
IsSimilarExecution(exec, p) ==
    \/ Stringify(exec.params) = Stringify(p)
    \/ /\ exec.content # << >>
       /\ SimilarityAboveThreshold(exec.content, Stringify(p))

(***************************************************************************)
(* State                                                                   *)
(***************************************************************************)
VARIABLES
    now,                \* Date.now()
    tools,              \* EnhancedMessageProcessor.tools (registered names)
    hooks,              \* EnhancedMessageProcessor.hooks
    toolTimeouts,       \* cooldown length per tool
    toolRetryCount,     \* validation failures per tool
    lastToolExecution,  \* start of the cooldown per tool
    toolErrors,         \* error history per tool
    toolPerformance,    \* EnhancedMessageProcessor.toolPerformance
    servicePerformance, \* ErrorHandlingService.toolPerformance
    recentExecutions,   \* loop-detection log per tool
    callLog             \* one entry per tool call handled: what was asked,
                        \* the result returned and the collaborators invoked

toolVars ==
    <<tools, hooks, toolTimeouts, toolRetryCount, lastToolExecution,
      toolErrors, toolPerformance, servicePerformance, recentExecutions, callLog>>

coordinatorVars == <<now, toolVars>>

\* Date.now() when the processor is constructed
StartTime == 1000000

NoHooks == [beforeExecution |-> "none", afterExecution |-> "none", onError |-> "none"]

EmptyPerformanceStats ==
    [successRate |-> <<1, 1>>, lastNExecutions |-> << >>, peakMemoryUsage |-> 0]

CoordinatorInit ==
    /\ now = StartTime
    /\ tools = {}
    /\ hooks = NoHooks
    /\ toolTimeouts = [t \in ToolNames |-> 0]
    /\ toolRetryCount = [t \in ToolNames |-> 0]
    /\ lastToolExecution = [t \in ToolNames |-> 0]
    /\ toolErrors = [t \in ToolNames |-> << >>]
    /\ toolPerformance = [t \in ToolNames |-> EmptyPerformanceStats]
    /\ servicePerformance = [t \in ToolNames |-> EmptyToolMetrics]
    /\ recentExecutions = [t \in ToolNames |-> << >>]
    /\ callLog = << >>


(***************************************************************************)
(* EnhancedPipeline                                                        *)
(*                                                                         *)
(* A stage is its config and the behaviour of its process function; the   *)
(* stage object is taken as its interface declares it, a config and a     *)
(* process function that travel together.  `kind` is the process:         *)
(*   "validation"   EnhancedValidationStage.process                       *)
(*   "tool-parser"  ToolParserStage.process                               *)
(*   "pass"         resolves with the context it was given                *)
(*   "fail"         throws on every attempt                               *)
(*   "flaky"        throws on the first attempt and then resolves         *)
(*   "hang"         never settles, so that the stage timer wins the race  *)
(*   "tag"          resolves with a copy of the context whose mode is the *)
(*                  stage's id and whose metadata has the entries         *)
(*                  last: id and [id]: "done"                             *)
(*   "late-tag"     throws on the first attempt and then does as "tag"    *)
(* `condition` is "none" (no condition), "always" or "never".  A branch   *)
(* is [id, condition, stages]; the stages of a branch are stage objects   *)
(* as their author wrote them (addStage fills in the defaults of the      *)
(* registered stage only) and declare no branches of their own.  Stages   *)
(* of the model declare no fallbackValue and no errorTransform.           *)
(***************************************************************************)
VARIABLES
    stages,         \* EnhancedPipeline.stages
    executionPath,  \* EnhancedPipeline.executionPath
    metrics,        \* EnhancedPipeline.metrics: errors, warnings,
                    \* recoveryAttempts, parallelGroups, stageMetrics
    run,            \* the process() call in flight, or the last one settled
    background,     \* stage attempts still in flight although their run was aborted
    addResult       \* what the last addStage call did

pipelineVars == <<stages, executionPath, metrics, run, background, addResult>>

\* an optional number that is left undefined
Unset == 0 - 1

DEFAULT_RETRY_DELAY == 1000
DEFAULT_MAX_MEMORY == 104857600
DEFAULT_MAX_CPU == 30000

StageIds == {"validation", "tool-parser", "A", "B", "C", "D", "E"}

StageConfig(id, kind, parallel, dependencies, maxRetries, ignoreErrors, condition) ==
    [id |-> id, priority |-> 0, kind |-> kind, parallel |-> parallel,
     dependencies |-> dependencies, branches |-> << >>,
     maxRetries |-> maxRetries, retryDelay |-> Unset, useExponentialBackoff |-> TRUE,
     maxMemory |-> Unset, maxCpu |-> Unset,
     ignoreErrors |-> ignoreErrors, condition |-> condition]

\* new EnhancedValidationStage()
EnhancedValidationStage ==
    StageConfig("validation", "validation", FALSE, {}, 3, FALSE, "none")

EmptyMetrics ==
    [errors |-> << >>, warnings |-> << >>, recoveryAttempts |-> 0,
     parallelGroups |-> << >>, stageMetrics |-> [id \in StageIds |-> Unset]]

EmptyContext ==
    [message |-> [text |-> << >>, directive |-> NoDirective], mode |-> "",
     workingDirectory |-> << >>, requiresToolExecution |-> FALSE,
     toolExecution |-> NoToolExecution, metadata |-> {}]

NoStageError == [stageId |-> Undefined, kind |-> "none"]

IdleRun ==
    [status |-> "idle", n |-> 0, context |-> EmptyContext, groups |-> << >>,
     members |-> << >>, error |-> NoStageError,
     pathStart |-> 0, recoveryStart |-> 0, warningStart |-> 0, errorStart |-> 0]

PipelineInit ==
    /\ stages = << >>
    /\ executionPath = << >>
    /\ metrics = EmptyMetrics
    /\ run = IdleRun
    /\ background = << >>
    /\ addResult = [n |-> 0, id |-> Undefined, dependencies |-> {}, threw |-> FALSE]

(***************************************************************************)
(* addStage                                                                *)
(***************************************************************************)
IsRegistered(id) == \E i \in 1..Len(stages) : stages[i].id = id

\* no check of the dependencies
DependenciesUnchecked(stage) == TRUE

DependenciesRegistered(stage) == \A depId \in stage.dependencies : IsRegistered(depId)

\* the three checks of addStage; "none" when the stage is accepted
addStageError(stage) ==
    IF stage.id = "" THEN "Stage must have an ID"
    ELSE IF IsRegistered(stage.id) THEN "Duplicate stage ID"
    ELSE IF ~DependenciesRegistered(stage) THEN "depends on non-existent stage"
    ELSE "none"

\* the stage as addStage stores it, defaults filled in
ValidatedStage(stage) ==
    [stage EXCEPT
        !.maxRetries = IF @ = Unset THEN DEFAULT_STAGE_MAX_RETRIES ELSE @,
        !.retryDelay = IF @ = Unset THEN DEFAULT_RETRY_DELAY ELSE @,
        !.maxMemory = IF @ = Unset THEN DEFAULT_MAX_MEMORY ELSE @,
        !.maxCpu = IF @ = Unset THEN DEFAULT_MAX_CPU ELSE @]

addStage(stage) ==
    /\ stages' = IF addStageError(stage) = "none"
                 THEN Append(stages, ValidatedStage(stage)) ELSE stages
    /\ addResult' = [n |-> addResult.n + 1, id |-> stage.id,
                     dependencies |-> stage.dependencies,
                     threw |-> addStageError(stage) # "none"]
    /\ UNCHANGED <<executionPath, metrics, run, background>>

(***************************************************************************)
(* organizeStages: groups of indices into `stages`                         *)
(***************************************************************************)
areDependenciesMet(stage, executedStages) ==
    \A dep \in stage.dependencies : Contains(executedStages, dep)

RECURSIVE organizeRemaining(_, _, _)
organizeRemaining(remainingStages, executedStages, groups) ==
    IF remainingStages = << >> THEN [cycle |-> FALSE, groups |-> groups]
    ELSE LET availableStages ==
                 SelectSeq(remainingStages,
                           LAMBDA i : areDependenciesMet(stages[i], executedStages))
             parallelStages == SelectSeq(availableStages, LAMBDA i : stages[i].parallel)
         IN  IF availableStages = << >> THEN [cycle |-> TRUE, groups |-> << >>]
             ELSE IF parallelStages # << >>
             THEN organizeRemaining(
                      SelectSeq(remainingStages, LAMBDA i : ~Contains(parallelStages, i)),
                      executedStages, Append(groups, parallelStages))
             ELSE organizeRemaining(
                      RemoveAt(remainingStages, IndexOf(remainingStages, availableStages[1])),
                      executedStages, Append(groups, <<availableStages[1]>>))

organizeStages ==
    organizeRemaining([i \in 1..Len(stages) |-> i], executionPath, << >>)

\* `{...merged, ...current}` of two metadata objects
SpreadMetadata(merged, current) ==
    {kv \in merged : \A c \in current : c[1] # kv[1]} \cup current

\* the last context as it is, nothing of the earlier ones kept
LastContextWins(contexts) == contexts[Len(contexts)]

\* mergeContexts: `{...merged, ...current, metadata: {...}}`, folded from the
\* left.  A spread copies the properties an object has: toolExecution, the
\* one property that the contexts of the model may lack, is taken from
\* `merged` when `current` has none.
RECURSIVE mergeContexts(_)
mergeContexts(contexts) ==
    IF Len(contexts) = 1 THEN contexts[1]
    ELSE LET merged == mergeContexts(SubSeq(contexts, 1, Len(contexts) - 1))
             current == Last(contexts)
         IN  [current EXCEPT
                 !.toolExecution = IF @ = NoToolExecution
                                   THEN merged.toolExecution ELSE @,
                 !.metadata = SpreadMetadata(merged.metadata, current.metadata)]

(***************************************************************************)
(* processSingleStage, one await at a time.                                *)
(*                                                                         *)
(* A member is one processSingleStage chain of the current group:         *)
(*   state "pending"   process was invoked and the race is not settled    *)
(*         "sleeping"  the retry delay is running                         *)
(*         "done"      the chain resolved; context is its result          *)
(*         "failed"    the chain rejected                                 *)
(*   at     the time its next event is due                                *)
(* px is the pipeline's mutable part, [path, metrics].                     *)
(***************************************************************************)
\* stage.process(context) on attempt number retryCount + 1
StageProcess(stage, context, retryCount) ==
    IF stage.kind = "validation"
    THEN [status |-> IF validateContext(context) = {} THEN "ok" ELSE "throws",
          context |-> context]
    ELSE IF stage.kind = "tool-parser"
    THEN [status |-> "ok", context |-> ToolParserProcess(context)]
    ELSE IF stage.kind = "pass" THEN [status |-> "ok", context |-> context]
    ELSE IF stage.kind = "flaky"
    THEN [status |-> IF retryCount = 0 THEN "throws" ELSE "ok", context |-> context]
    ELSE IF stage.kind = "hang" THEN [status |-> "timeout", context |-> context]
    ELSE IF stage.kind = "tag" \/ (stage.kind = "late-tag" /\ retryCount > 0)
    THEN [status |-> "ok",
          context |-> [context EXCEPT
                          !.mode = stage.id,
                          !.metadata = SpreadMetadata(@, {<<"last", stage.id>>,
                                                          <<stage.id, "done">>})]]
    ELSE [status |-> "throws", context |-> context]

\* heap and CPU readings of the catch block
PipelineSamples ==
    {[heapUsed |-> 50000000, cpu |-> 20000],
     [heapUsed |-> 200000000, cpu |-> 20000],
     [heapUsed |-> 50000000, cpu |-> 45000]}

WithinLimits == [heapUsed |-> 50000000, cpu |-> 20000]

\* one more retry than configured
RetryAllowedOnceMore(stage, retryCount) == retryCount <= stage.maxRetries

\* `retryCount < (stage.config.maxRetries || 0)`
RetryAllowed(stage, retryCount) == retryCount < stage.maxRetries

retryDelay(stage, retryCount) ==
    LET base == IF stage.retryDelay \in {0, Unset} THEN DEFAULT_RETRY_DELAY
                ELSE stage.retryDelay
    IN  IF stage.useExponentialBackoff THEN base * Pow(2, retryCount) ELSE base

\* the branch position of a member that runs its registered stage
NoOuter == [retryCount |-> 0, context |-> EmptyContext]

\* the stage a member is running: its registered stage, or stage
\* m.branch[2] of branch m.branch[1] of that stage
CurrentStage(m) ==
    IF m.branch = << >> THEN stages[m.stage]
    ELSE stages[m.stage].branches[m.branch[1]].stages[m.branch[2]]

\* `await branch.condition(context)`
BranchCondition(branch, context) ==
    \/ branch.condition = "always"
    \/ branch.condition = "tool" /\ context.requiresToolExecution

\* processBranches: the first branch whose condition holds, 0 for none
FirstBranch(branches, context) ==
    IF \E b \in 1..Len(branches) : BranchCondition(branches[b], context)
    THEN CHOOSE b \in 1..Len(branches) :
             /\ BranchCondition(branches[b], context)
             /\ \A a \in 1..(b - 1) : ~BranchCondition(branches[a], context)
    ELSE 0

\* when the race of an attempt of `stage` settles
RaceEnds(stage, context, retryCount, time) ==
    IF StageProcess(stage, context, retryCount).status = "timeout"
    THEN time + STAGE_TIMEOUT ELSE time

\* processSingleStage(stage, context, retryCount) up to the race: the
\* condition, the push on executionPath and the call of process
InvokeStage(s, context, retryCount, time, path) ==
    IF stages[s].condition = "never"
    THEN [member |-> [stage |-> s, retryCount |-> retryCount, state |-> "done",
                      at |-> time, context |-> context,
                      branch |-> << >>, outer |-> NoOuter],
          path |-> path]
    ELSE [member |-> [stage |-> s, retryCount |-> retryCount, state |-> "pending",
                      at |-> RaceEnds(stages[s], context, retryCount, time),
                      context |-> context,
                      branch |-> << >>, outer |-> NoOuter],
          path |-> Append(path, stages[s].id)]

\* the loop of processBranches over the stages of branch b, from stage k on,
\* up to the race of the first stage whose condition lets it run; m.outer
\* holds the attempt of the registered stage that took the branch
RECURSIVE RunBranch(_, _, _, _, _)
RunBranch(m, b, k, context, px) ==
    LET branchStages == stages[m.stage].branches[b].stages
    IN  IF k > Len(branchStages)
        THEN [member |-> [m EXCEPT !.state = "done", !.context = context,
                                   !.retryCount = m.outer.retryCount,
                                   !.branch = << >>, !.outer = NoOuter],
              px |-> px, error |-> NoStageError]
        ELSE IF branchStages[k].condition = "never"
        THEN RunBranch(m, b, k + 1, context, px)
        ELSE [member |-> [m EXCEPT !.state = "pending", !.context = context,
                                   !.retryCount = 0, !.branch = <<b, k>>,
                                   !.at = RaceEnds(branchStages[k], context, 0, @)],
              px |-> [px EXCEPT !.path = Append(@, branchStages[k].id)],
              error |-> NoStageError]

\* the catch block of processSingleStage(stage, context, retryCount) for a
\* thrown `error`, with the resource reading `sample`: what it does next
CatchStage(stage, retryCount, error, sample, px) ==
    LET failedPx == [px EXCEPT !.metrics.errors =
                        Append(@, [stageId |-> stage.id, retryCount |-> retryCount])]
    IN  IF stage.maxMemory \notin {0, Unset} /\ sample.heapUsed > stage.maxMemory
        THEN [action |-> "throw", px |-> failedPx,
              error |-> [stageId |-> stage.id, kind |-> "memory"]]
        ELSE IF stage.maxCpu \notin {0, Unset} /\ sample.cpu > stage.maxCpu
        THEN [action |-> "throw", px |-> failedPx,
              error |-> [stageId |-> stage.id, kind |-> "cpu"]]
        ELSE IF RetryAllowed(stage, retryCount)
        THEN [action |-> "retry",
              px |-> [failedPx EXCEPT
                         !.metrics.recoveryAttempts = @ + 1,
                         !.metrics.warnings =
                             Append(@, [stageId |-> stage.id, kind |-> "retry"])],
              error |-> NoStageError]
        ELSE IF stage.ignoreErrors
        THEN [action |-> "ignore",
              px |-> [failedPx EXCEPT
                         !.metrics.warnings =
                             Append(@, [stageId |-> stage.id, kind |-> "ignored"])],
              error |-> NoStageError]
        ELSE [action |-> "throw", px |-> failedPx, error |-> error]

\* the race of a pending member settles: the rest of the try block, or the
\* catch block with the resource reading `sample`.  What a stage of a
\* branch throws is thrown by processBranches inside the try block of the
\* registered stage, whose catch block handles it in turn.
SettleStage(m, sample, px) ==
    LET stage == CurrentStage(m)
        Recorded(px0) == [px0 EXCEPT !.metrics.stageMetrics[stage.id] = m.retryCount]
        Sleeping(st, retryCount, context, branch, outer, c) ==
            [member |-> [m EXCEPT !.state = "sleeping", !.retryCount = retryCount,
                                  !.context = context, !.branch = branch,
                                  !.outer = outer,
                                  !.at = m.at + retryDelay(st, retryCount)],
             px |-> c.px, error |-> NoStageError]
        Failed(c) == [member |-> [m EXCEPT !.state = "failed"], px |-> c.px,
                      error |-> c.error]
        Done(context, retryCount, px0) ==
            [member |-> [m EXCEPT !.state = "done", !.context = context,
                                  !.retryCount = retryCount,
                                  !.branch = << >>, !.outer = NoOuter],
             px |-> px0, error |-> NoStageError]
        OuterCaught(c) ==
            IF c.action = "retry"
            THEN Sleeping(stages[m.stage], m.outer.retryCount, m.outer.context,
                          << >>, NoOuter, c)
            ELSE IF c.action = "ignore"
            THEN Done(m.outer.context, m.outer.retryCount, c.px)
            ELSE Failed(c)
        Caught(c) ==
            IF c.action = "retry"
            THEN Sleeping(stage, m.retryCount, m.context, m.branch, m.outer, c)
            ELSE IF m.branch = << >>
            THEN (IF c.action = "ignore" THEN Done(m.context, m.retryCount, c.px)
                  ELSE Failed(c))
            ELSE IF c.action = "ignore"
            THEN RunBranch(m, m.branch[1], m.branch[2] + 1, m.context, c.px)
            ELSE OuterCaught(CatchStage(stages[m.stage], m.outer.retryCount,
                                        c.error, sample, c.px))
        Resolved(result) ==
            IF m.branch # << >>
            THEN RunBranch(m, m.branch[1], m.branch[2] + 1, result, Recorded(px))
            ELSE IF FirstBranch(stage.branches, result) # 0
            THEN RunBranch([m EXCEPT !.outer = [retryCount |-> m.retryCount,
                                                context |-> m.context]],
                           FirstBranch(stage.branches, result), 1, result, px)
            ELSE Done(result, m.retryCount, Recorded(px))
        Settled(out) ==
            IF out.status = "ok" THEN Resolved(out.context)
            ELSE Caught(CatchStage(stage, m.retryCount,
                                   [stageId |-> stage.id, kind |-> "stage"],
                                   sample, px))
    IN  Settled(StageProcess(stage, m.context, m.retryCount))

\* the retry delay of a sleeping member is over:
\* processSingleStage(stage, context, retryCount + 1)
RetryStage(m, px) ==
    LET Invoked(inv) ==
            [member |-> inv.member, px |-> [px EXCEPT !.path = inv.path],
             error |-> NoStageError]
    IN  IF m.branch = << >>
        THEN Invoked(InvokeStage(m.stage, m.context, m.retryCount + 1, m.at, px.path))
        ELSE [member |-> [m EXCEPT
                             !.state = "pending", !.retryCount = @ + 1,
                             !.at = RaceEnds(CurrentStage(m), m.context,
                                             m.retryCount + 1, @)],
              px |-> [px EXCEPT !.path = Append(@, CurrentStage(m).id)],
              error |-> NoStageError]

\* one event of a member that is pending or sleeping
MemberEvent(m, sample, px) ==
    IF m.state = "pending" THEN SettleStage(m, sample, px) ELSE RetryStage(m, px)

IsActive(m) == m.state \in {"pending", "sleeping"}

\* the first attempts of a group: members without a condition call process
\* in the synchronous part of processSingleStage, members with a condition
\* one tick later
RECURSIVE StartMembers(_, _, _, _, _)
StartMembers(order, context, time, path, members) ==
    LET Next(inv) ==
            StartMembers(Tail(order), context, time, inv.path,
                         Append(members, inv.member))
    IN  IF order = << >> THEN [members |-> members, path |-> path]
        ELSE Next(InvokeStage(Head(order), context, 0, time, path))

StartGroup(group, context, time, path) ==
    LET InGroupOrder(order, started) ==
            [members |-> [i \in 1..Len(group) |->
                             started.members[IndexOf(order, group[i])]],
             path |-> started.path]
        Started(order) ==
            InGroupOrder(order, StartMembers(order, context, time, path, << >>))
    IN  Started(SelectSeq(group, LAMBDA s : stages[s].condition = "none")
                    \o SelectSeq(group, LAMBDA s : stages[s].condition # "none"))

\* the loop of process(): when every member of the group is done, merge
\* and start the next group, or resolve after the last one
RECURSIVE Advance(_, _, _)
Advance(r, px, time) ==
    LET Merged(results) ==
            IF Len(results) = 0 THEN r.context
            ELSE IF Len(results) = 1 THEN results[1]
            ELSE mergeContexts(results)
        NextGroup(context, px2, g) ==
            Advance([r EXCEPT !.context = context, !.groups = Tail(@),
                              !.members = g.members],
                    [px2 EXCEPT !.path = g.path], time)
        Continue(context, px2) ==
            IF r.groups = << >>
            THEN [run |-> [r EXCEPT !.status = "resolved", !.context = context,
                                    !.members = << >>],
                  px |-> px2]
            ELSE NextGroup(context, px2,
                           StartGroup(Head(r.groups), context, time, px2.path))
    IN  IF r.status # "running" \/ \E i \in 1..Len(r.members) : r.members[i].state # "done"
        THEN [run |-> r, px |-> px]
        ELSE Continue(Merged([i \in 1..Len(r.members) |-> r.members[i].context]),
                      IF Len(r.members) > 1
                      THEN [px EXCEPT !.metrics.parallelGroups =
                               Append(@, [i \in 1..Len(r.members) |->
                                             stages[r.members[i].stage].id])]
                      ELSE px)

\* the catch block of process()
AbortRun(r, px, error) ==
    [run |-> [r EXCEPT !.status = "rejected", !.error = error, !.members = << >>],
     px |-> [px EXCEPT !.metrics.errors =
                Append(@, [stageId |-> IF px.path = << >> THEN Undefined
                                       ELSE Last(px.path),
                           retryCount |-> Unset])]]

(***************************************************************************)
(* EnhancedPipeline.process as steps                                       *)
(***************************************************************************)
PipelineState == [path |-> executionPath, metrics |-> metrics]

\* the events that are due: those of the run's members and of the background
DueTimes ==
    {run.members[i].at : i \in {k \in 1..Len(run.members) : IsActive(run.members[k])}}
    \cup {background[j].at : j \in 1..Len(background)}

\* nothing is due before `time`
Quiet(time) == \A at \in DueTimes : at >= time

\* process(context) up to its first await: the groups are planned and the
\* first group is started
process(context) ==
    LET r0 == [status |-> "running", n |-> run.n + 1, context |-> context,
               groups |-> << >>, members |-> << >>, error |-> NoStageError,
               pathStart |-> Len(executionPath),
               recoveryStart |-> metrics.recoveryAttempts,
               warningStart |-> Len(metrics.warnings),
               errorStart |-> Len(metrics.errors)]
        Entered(next) ==
            /\ run' = next.run
            /\ executionPath' = next.px.path
            /\ metrics' = next.px.metrics
        Planned(planned) ==
            Entered(IF planned.cycle
                    THEN AbortRun(r0, PipelineState,
                                  [stageId |-> Undefined, kind |-> "cycle"])
                    ELSE Advance([r0 EXCEPT !.groups = planned.groups],
                                 PipelineState, now))
    IN  /\ run.status # "running"
        /\ Quiet(now)
        /\ Planned(organizeStages)
        /\ UNCHANGED <<now, stages, background, addResult>>

\* the next event of member i of the running group
StageStep(i, sample) ==
    LET m == run.members[i]
        time == Max2(now, m.at)
        Entered(next) ==
            /\ run' = next.run
            /\ executionPath' = next.px.path
            /\ metrics' = next.px.metrics
        Handled(ev, r1) ==
            /\ Entered(IF ev.member.state = "failed" THEN AbortRun(r1, ev.px, ev.error)
                       ELSE Advance(r1, ev.px, time))
            /\ background' = IF ev.member.state = "failed"
                             THEN background \o SelectSeq(r1.members, IsActive)
                             ELSE background
        Event(ev) == Handled(ev, [run EXCEPT !.members[i] = ev.member])
    IN  /\ run.status = "running"
        /\ i \in 1..Len(run.members)
        /\ IsActive(run.members[i])
        /\ Quiet(run.members[i].at)
        /\ now' = time
        /\ Event(MemberEvent(m, sample, PipelineState))
        /\ UNCHANGED <<stages, addResult>>

\* the next event of a member whose run was aborted: Promise.all has
\* rejected, the other members' chains go on
BackgroundStep(j, sample) ==
    LET Event(ev) ==
            /\ executionPath' = ev.px.path
            /\ metrics' = ev.px.metrics
            /\ background' = IF IsActive(ev.member)
                             THEN [background EXCEPT ![j] = ev.member]
                             ELSE RemoveAt(background, j)
    IN  /\ j \in 1..Len(background)
        /\ Quiet(background[j].at)
        /\ now' = Max2(now, background[j].at)
        /\ Event(MemberEvent(background[j], sample, PipelineState))
        /\ UNCHANGED <<stages, run, addResult>>

(***************************************************************************)
(* EnhancedMessageProcessor.process and addPipelineStage                   *)
(***************************************************************************)
\* enhanceStage(stage, {maxRetries: MAX_RETRIES, ...}) of a basic stage
enhanceStage(id, kind) == StageConfig(id, kind, FALSE, {}, MAX_RETRIES, FALSE, "none")

\* the message of the error a rejected pipeline run carries
PipelineErrorMessage(error) ==
    IF error.kind = "cycle" THEN {"circular"}
    ELSE IF error.kind \in {"memory", "cpu"} THEN {"exceeded"}
    ELSE IF error.stageId = "validation" THEN {"validation"}
    ELSE {"stage"}

\* a catch block that throws the error on
ProcessRethrows(error) ==
    [settled |-> "rejected", success |-> FALSE, error |-> error, hasError |-> TRUE]

\* `catch (error) { return { success: false, content: "", error, ... } }`
ProcessCatch(error) ==
    [settled |-> "resolved", success |-> FALSE, error |-> error, hasError |-> TRUE]

\* the results returned from inside the try block
ProcessReturn(success, error, hasError) ==
    [settled |-> "resolved", success |-> success, error |-> error, hasError |-> hasError]

\* the per-tool entries of the coordinator's maps, as one record
ToolState(t) ==
    [timeout |-> toolTimeouts[t],
     retry |-> toolRetryCount[t],
     last |-> lastToolExecution[t],
     errors |-> toolErrors[t],
     perf |-> toolPerformance[t],
     service |-> servicePerformance[t],
     recent |-> recentExecutions[t]]

\* a gate that lets every call through
NeverInCooldown(t, time) == FALSE

\* the cooldown gate of executeTool
InCooldown(t, time) ==
    /\ lastToolExecution[t] # 0
    /\ time - lastToolExecution[t] < toolTimeouts[t]

\* perfStats.successRate = (successRate * (errors.length - 1) + 0) / errors.length,
\* a fraction <<numerator, denominator>>
DecaySuccessRate(rate, n) ==
    IF rate[1] * (n - 1) = 0 THEN <<0, 1>> ELSE <<rate[1] * (n - 1), rate[2] * n>>

(***************************************************************************)
(* The catch block of executeTool.  st is the tool's state as the try     *)
(* block left it, startT the call's start, endT the time of the failure.  *)
(* The result carries the tool's new state and what the call returns;     *)
(* `rejected` tells that onError threw, so that executeTool itself        *)
(* rejected and process() built the result.                               *)
(***************************************************************************)
HandleToolError(t, st, events, kind, message, startT, endT, sample, hookMessage) ==
    LET errors == Append(st.errors,
                         [message |-> message, timestamp |-> endT,
                          memory |-> sample.memory, cpu |-> sample.cpu])
        service == updateToolPerformance(st.service, endT - startT, FALSE)
        Outcome(tracked, shouldRetry, delay) ==
            IF hooks.onError = "throws"
            THEN [state |-> tracked,
                  events |-> Append(events, "onError"),
                  outcome |-> kind, success |-> FALSE, error |-> hookMessage,
                  hasError |-> TRUE,
                  rejected |-> TRUE, shouldRetry |-> shouldRetry, endT |-> endT]
            ELSE [state |-> [tracked EXCEPT
                                !.timeout = IF shouldRetry THEN delay
                                            ELSE ToolTimeout(t) * 2,
                                !.last = endT],
                  events |-> IF hooks.onError = "none" THEN events
                             ELSE Append(events, "onError"),
                  outcome |-> kind, success |-> FALSE, error |-> message,
                  hasError |-> TRUE,
                  rejected |-> FALSE, shouldRetry |-> shouldRetry, endT |-> endT]
    IN  Outcome([st EXCEPT
                    !.errors = errors,
                    !.perf = [successRate |->
                                  DecaySuccessRate(st.perf.successRate, Len(errors)),
                              lastNExecutions |->
                                  PushCapped(st.perf.lastNExecutions, endT - startT, 10),
                              peakMemoryUsage |->
                                  Max2(st.perf.peakMemoryUsage, sample.memory)],
                    !.service = service],
                determineRetryStrategy(service, analyzeErrorPatterns(errors, endT),
                                       st.retry),
                calculateBackoffDelay(service, st.retry))

\* a loop check that trips one execution later
LoopDetectedLate(similar) == Len(similar) > MAX_SIMILAR_EXECUTIONS

\* the loop check of executeTool
FilteredExecutions(recent, currentTime) ==
    SelectSeq(recent, LAMBDA exec : currentTime - exec.timestamp < LOOP_TIME_WINDOW)

SimilarExecutions(filtered, p) ==
    SelectSeq(filtered, LAMBDA exec : IsSimilarExecution(exec, p))

LoopDetected(similar) == Len(similar) >= MAX_SIMILAR_EXECUTIONS

\* a ceiling that gives way one attempt later
RetryCeilingExceededLate(retryCount) == retryCount > MAX_RETRIES

\* `retryCount >= this.MAX_RETRIES`, retryCount read before the increment
RetryCeilingExceeded(retryCount) == retryCount >= MAX_RETRIES

(***************************************************************************)
(* executeTool for a registered tool that passed the cooldown gate: the   *)
(* try block.  e holds what the collaborators do in this call:            *)
(*   e.exec     "ok" | "failres" (execute resolves, success true / false) *)
(*              | "throws" | "timeout" (the timer wins the race)          *)
(*   e.content, e.thrown, e.dur  the result content, the thrown message,  *)
(*              the time execute takes                                     *)
(*   e.sample   the resource reading of the catch block                   *)
(*   e.hookMessage  the message of a throwing hook                         *)
(***************************************************************************)
RunTool(t, p, e) ==
    LET st == ToolState(t)
        ev0 == IF hooks.beforeExecution = "none" THEN << >> ELSE <<"beforeExecution">>
        ev1 == Append(ev0, "validate")
        ev2 == Append(ev1, "execute")
        Thrown(s, ev, kind, message, endT) ==
            [threw |-> TRUE, state |-> s, events |-> ev, outcome |-> kind,
             message |-> message, endT |-> endT]
        \* execute is called with the call recorded in the log
        Execute(recorded) ==
            IF e.exec = "timeout"
            THEN Thrown(recorded, ev2, "timeout", TimedOutMessage, now + ToolTimeout(t))
            ELSE IF e.exec = "throws"
            THEN Thrown(recorded, ev2, "threw", e.thrown, now + e.dur)
            ELSE IF hooks.afterExecution = "throws"
            THEN Thrown([recorded EXCEPT
                            !.recent[Len(recorded.recent)].content = e.content,
                            !.last = now + e.dur,
                            !.service = updateToolPerformance(recorded.service,
                                                              e.dur, TRUE)],
                        Append(ev2, "afterExecution"), "after_hook", e.hookMessage,
                        now + e.dur)
            ELSE [threw |-> FALSE,
                  state |-> [recorded EXCEPT
                                !.recent[Len(recorded.recent)].content = e.content,
                                !.last = now + e.dur,
                                !.service = updateToolPerformance(recorded.service,
                                                                  e.dur, TRUE)],
                  events |-> IF hooks.afterExecution = "none" THEN ev2
                             ELSE Append(ev2, "afterExecution"),
                  outcome |-> e.exec, message |-> {}, endT |-> now + e.dur]
        \* the loop check on the log filtered to the window
        LoopCheck(cleared, filtered) ==
            IF LoopDetected(SimilarExecutions(filtered, p))
            THEN Thrown(cleared, ev1, "loop", LoopDetectedMessage, now)
            ELSE Execute([cleared EXCEPT !.recent =
                             Append(filtered, [params |-> p, timestamp |-> now,
                                               content |-> << >>])])
        \* the try block
        Try ==
            IF hooks.beforeExecution = "throws"
            THEN Thrown(st, ev0, "before_hook", e.hookMessage, now)
            ELSE IF ~Validate(t, p)
            THEN IF RetryCeilingExceeded(st.retry)
                 THEN Thrown([st EXCEPT !.retry = st.retry + 1,
                                        !.timeout = ToolTimeout(t), !.last = now],
                             ev1, "disabled", ToolDisabledMessage, now)
                 ELSE Thrown([st EXCEPT !.retry = st.retry + 1],
                             ev1, "invalid", InvalidParametersMessage, now)
            ELSE LoopCheck([st EXCEPT !.retry = 0], FilteredExecutions(st.recent, now))
        \* the catch block, or the result of the try block
        Settle(a) ==
            IF a.threw
            THEN HandleToolError(t, a.state, a.events, a.outcome, a.message, now,
                                 a.endT, e.sample, e.hookMessage)
            ELSE [state |-> a.state, events |-> a.events, outcome |-> a.outcome,
                  success |-> a.outcome = "ok", error |-> {}, hasError |-> FALSE,
                  rejected |-> FALSE, shouldRetry |-> FALSE, endT |-> a.endT]
    IN  Settle(Try)

\* executeTool as process() sees it: the two throws before the try block
\* (unknown tool, cooldown gate) reject without touching any state
executeTool(t, p, e) ==
    IF t \notin tools
    THEN [state |-> ToolState(t), events |-> << >>, outcome |-> "not_found",
          success |-> FALSE, error |-> NotFoundMessage, hasError |-> TRUE,
          rejected |-> TRUE,
          shouldRetry |-> FALSE, endT |-> now]
    ELSE IF InCooldown(t, now)
    THEN [state |-> ToolState(t), events |-> << >>, outcome |-> "cooldown",
          success |-> FALSE, error |-> InTimeoutMessage, hasError |-> TRUE,
          rejected |-> TRUE,
          shouldRetry |-> FALSE, endT |-> now]
    ELSE RunTool(t, p, e)

\* the tool branch of EnhancedMessageProcessor.process: executeTool and the
\* result built from what it returned or threw
DispatchTool(t, p, e) ==
    LET Return(r, res) ==
            /\ now' = r.endT
            /\ toolTimeouts' = [toolTimeouts EXCEPT ![t] = r.state.timeout]
            /\ toolRetryCount' = [toolRetryCount EXCEPT ![t] = r.state.retry]
            /\ lastToolExecution' = [lastToolExecution EXCEPT ![t] = r.state.last]
            /\ toolErrors' = [toolErrors EXCEPT ![t] = r.state.errors]
            /\ toolPerformance' = [toolPerformance EXCEPT ![t] = r.state.perf]
            /\ servicePerformance' = [servicePerformance EXCEPT ![t] = r.state.service]
            /\ recentExecutions' = [recentExecutions EXCEPT ![t] = r.state.recent]
            /\ callLog' = Append(callLog,
                                 [tool |-> t, params |-> p, at |-> now, run |-> run.n,
                                  outcome |-> r.outcome,
                                  settled |-> res.settled, success |-> res.success,
                                  error |-> res.error, hasError |-> res.hasError,
                                  events |-> r.events,
                                  rejected |-> r.rejected,
                                  shouldRetry |-> r.shouldRetry])
            /\ UNCHANGED <<tools, hooks>>
        Caught(r) == Return(r, IF r.rejected THEN ProcessCatch(r.error)
                               ELSE ProcessReturn(r.success, r.error, r.hasError))
    IN  Caught(executeTool(t, p, e))

registerTool(t) ==
    /\ tools' = tools \cup {t}
    /\ UNCHANGED <<now, hooks, toolTimeouts, toolRetryCount, lastToolExecution,
                   toolErrors, toolPerformance, servicePerformance,
                   recentExecutions, callLog>>

setToolHooks(h) ==
    /\ hooks' = h
    /\ UNCHANGED <<now, tools, toolTimeouts, toolRetryCount, lastToolExecution,
                   toolErrors, toolPerformance, servicePerformance,
                   recentExecutions, callLog>>

\* time passing between calls
Tick(d) ==
    /\ now' = now + d
    /\ UNCHANGED <<tools, hooks, toolTimeouts, toolRetryCount, lastToolExecution,
                   toolErrors, toolPerformance, servicePerformance,
                   recentExecutions, callLog>>

\* process() starts: the pipeline is entered
StartProcess(context) ==
    /\ run.status = "idle"
    /\ process(context)
    /\ UNCHANGED toolVars

\* the pipeline has settled: the rest of process()
FinishProcess(e) ==
    /\ run.status \in {"resolved", "rejected"}
    /\ run' = [run EXCEPT !.status = "idle"]
    /\ UNCHANGED <<stages, executionPath, metrics, background, addResult>>
    /\ IF run.status = "resolved" /\ run.context.requiresToolExecution
          /\ run.context.toolExecution # NoToolExecution
       THEN DispatchTool(run.context.toolExecution.toolName,
                         run.context.toolExecution.params, e)
       ELSE LET res == IF run.status = "rejected"
                       THEN ProcessCatch(PipelineErrorMessage(run.error))
                       ELSE ProcessReturn(TRUE, {}, FALSE)
            IN  /\ callLog' = Append(callLog,
                       [tool |-> Undefined, params |-> Undefined, at |-> now,
                        run |-> run.n,
                        outcome |-> IF run.status = "rejected" THEN "pipeline"
                                    ELSE "message",
                        settled |-> res.settled, success |-> res.success,
                        error |-> res.error, hasError |-> res.hasError,
                        events |-> << >>, rejected |-> FALSE, shouldRetry |-> FALSE])
                /\ UNCHANGED <<now, tools, hooks, toolTimeouts, toolRetryCount,
                               lastToolExecution, toolErrors, toolPerformance,
                               servicePerformance, recentExecutions>>

addPipelineStage(stage) ==
    /\ run.status = "idle"
    /\ addStage(stage)
    /\ UNCHANGED coordinatorVars

\* new EnhancedMessageProcessor()
EnhancedInit ==
    /\ CoordinatorInit
    /\ stages = <<ValidatedStage(EnhancedValidationStage)>>
    /\ executionPath = << >>
    /\ metrics = EmptyMetrics
    /\ run = IdleRun
    /\ background = << >>
    /\ addResult = [n |-> 1, id |-> "validation", dependencies |-> {}, threw |-> FALSE]

(***************************************************************************)
(* MessageProcessor (the basic processor)                                  *)
(***************************************************************************)
VARIABLES
    basicStages,    \* MessageProcessor.stages
    basicTools,     \* MessageProcessor.tools
    basicHooks,     \* MessageProcessor.hooks
    basicLog        \* one entry per process() call of the basic processor

basicVars == <<basicStages, basicTools, basicHooks, basicLog>>

BasicInit ==
    /\ basicStages = << >>
    /\ basicTools = {}
    /\ basicHooks = NoHooks
    /\ basicLog = << >>

\* MessageProcessor.processPipeline over the stages that remain
RECURSIVE processPipeline(_, _)
processPipeline(remaining, context) ==
    LET Next(out) ==
            IF out.status = "ok" THEN processPipeline(Tail(remaining), out.context)
            ELSE [threw |-> TRUE, context |-> context]
    IN  IF remaining = << >> THEN [threw |-> FALSE, context |-> context]
        ELSE Next(StageProcess(Head(remaining), context, 0))

\* a processor that does not consult tool.validate
ParamsNeverChecked(t, p) == TRUE

\* tool.validate(params) as the basic processor consults it
BasicParamsAccepted(t, p) == Validate(t, p)

\* MessageProcessor.executeTool
basicExecuteTool(t, p, e) ==
    LET ev0 == IF basicHooks.beforeExecution = "none" THEN << >> ELSE <<"beforeExecution">>
        ev1 == Append(ev0, "validate")
        ev2 == Append(ev1, "execute")
        failed(ev, kind, message) ==
            IF basicHooks.onError = "throws"
            THEN [events |-> Append(ev, "onError"), outcome |-> kind, success |-> FALSE,
                  error |-> e.hookMessage, hasError |-> TRUE, rejected |-> TRUE]
            ELSE [events |-> IF basicHooks.onError = "none" THEN ev
                             ELSE Append(ev, "onError"),
                  outcome |-> kind, success |-> FALSE, error |-> message,
                  hasError |-> TRUE, rejected |-> FALSE]
    IN  IF t \notin basicTools
        THEN [events |-> << >>, outcome |-> "not_found", success |-> FALSE,
              error |-> NotFoundMessage, hasError |-> TRUE, rejected |-> TRUE]
        ELSE IF basicHooks.beforeExecution = "throws"
        THEN failed(ev0, "before_hook", e.hookMessage)
        ELSE IF ~BasicParamsAccepted(t, p)
        THEN failed(ev1, "invalid", InvalidParametersMessage)
        ELSE IF e.exec = "throws"
        THEN failed(ev2, "threw", e.thrown)
        ELSE IF basicHooks.afterExecution = "throws"
        THEN failed(Append(ev2, "afterExecution"), "after_hook", e.hookMessage)
        ELSE [events |-> IF basicHooks.afterExecution = "none" THEN ev2
                         ELSE Append(ev2, "afterExecution"),
              outcome |-> e.exec, success |-> e.exec = "ok", error |-> {},
              hasError |-> FALSE, rejected |-> FALSE]

\* the catch block of MessageProcessor.process
BasicProcessCatch(error) ==
    [settled |-> "resolved", success |-> FALSE, error |-> error, hasError |-> TRUE]

\* MessageProcessor.process
basicProcess(context, e) ==
    LET Return(tool, params, r, res) ==
            /\ basicLog' = Append(basicLog,
                                  [tool |-> tool, params |-> params,
                                   outcome |-> r.outcome,
                                   settled |-> res.settled, success |-> res.success,
                                   error |-> res.error, hasError |-> res.hasError,
                                   events |-> r.events, rejected |-> r.rejected])
            /\ UNCHANGED <<basicStages, basicTools, basicHooks>>
        Caught(tool, params, r) ==
            Return(tool, params, r,
                   IF r.rejected THEN BasicProcessCatch(r.error)
                   ELSE ProcessReturn(r.success, r.error, r.hasError))
        Piped(piped) ==
            IF /\ ~piped.threw
               /\ piped.context.requiresToolExecution
               /\ piped.context.toolExecution # NoToolExecution
            THEN Caught(piped.context.toolExecution.toolName,
                        piped.context.toolExecution.params,
                        basicExecuteTool(piped.context.toolExecution.toolName,
                                         piped.context.toolExecution.params, e))
            ELSE Caught(Undefined, Undefined,
                        [events |-> << >>,
                         outcome |-> IF piped.threw THEN "pipeline" ELSE "message",
                         success |-> ~piped.threw,
                         error |-> IF piped.threw THEN {"stage"} ELSE {},
                         hasError |-> piped.threw, rejected |-> piped.threw])
    IN  Piped(processPipeline(basicStages, context))

basicAddPipelineStage(stage) ==
    /\ basicStages' = Append(basicStages, stage)
    /\ UNCHANGED <<basicTools, basicHooks, basicLog>>

basicRegisterTool(t) ==
    /\ basicTools' = basicTools \cup {t}
    /\ UNCHANGED <<basicStages, basicHooks, basicLog>>

basicSetToolHooks(h) ==
    /\ basicHooks' = h
    /\ UNCHANGED <<basicStages, basicTools, basicLog>>

(***************************************************************************)
(* The adaptive engine (adaptive/AdaptiveEngine.ts)                        *)
(*                                                                         *)
(* A number that the engine computes by a division is kept as the         *)
(* fraction <<numerator, denominator>>; the denominator 0 stands for NaN   *)
(* (the only division by zero in the engine is 0 / 0).  An execution      *)
(* pattern is [success, executionTime, memoryPct, inputSignature], where  *)
(* memoryPct is the peak memory of the result in percent of 100 MB; cpu   *)
(* and io usage of a result are 0.                                         *)
(***************************************************************************)
VARIABLES
    adaptiveConfig, \* AdaptiveEngine.config
    toolProfiles,   \* AdaptiveEngine.toolProfiles
    plan,           \* the last ExecutionPlan generateExecutionPlan returned
    adaptiveTools,  \* EnhancedAdaptiveProcessor.tools
    adaptiveLog,    \* what the calls of EnhancedAdaptiveProcessor.process did
    storedPatterns  \* PatternLearningSystem.patterns

adaptiveVars ==
    <<adaptiveConfig, toolProfiles, plan, adaptiveTools, adaptiveLog, storedPatterns>>

NaN == <<0, 0>>

IsNaN(q) == q[2] = 0

\* toolProfiles.get(name) is undefined
NoProfile ==
    [exists |-> FALSE, successRate |-> <<1, 1>>, avgExecutionTime |-> <<0, 1>>,
     resourceEfficiency |-> <<1, 1>>, cacheEffectiveness |-> 0, patterns |-> << >>]

NoPlan == [tool |-> Undefined]

DefaultAdaptiveConfig ==
    [maxPatternHistory |-> 1, cacheTimeout |-> 60000,
     resourceWeights |-> [memory |-> 1, cpu |-> 1, io |-> 1, network |-> 1]]

\* the engine before any call, with the configuration `config`
AdaptiveInitWith(config) ==
    /\ adaptiveConfig = config
    /\ toolProfiles = [t \in ToolNames |-> NoProfile]
    /\ plan = NoPlan
    /\ adaptiveTools = {}
    /\ adaptiveLog = << >>
    /\ storedPatterns = << >>

\* (1 - memory / 100MB) * w.memory + (1 - 0) * w.cpu + (1 - 0) * w.io
\* + (1 - 0) * w.network, over the sum of the weights
calculateResourceEfficiency(memoryPct, w) ==
    IF w.memory + w.cpu + w.io + w.network = 0 THEN NaN
    ELSE <<(100 - memoryPct) * w.memory + 100 * (w.cpu + w.io + w.network),
           100 * (w.memory + w.cpu + w.io + w.network)>>

\* the profile of tool t after profileTool(tool, result, context)
ProfiledWith(t, result) ==
    LET profile == toolProfiles[t]
        pattern == [success |-> result.success,
                    executionTime |-> result.executionTime,
                    memoryPct |-> result.memoryPct,
                    inputSignature |-> result.signature]
        pushed == Append(profile.patterns, pattern)
        patterns == IF Len(pushed) > adaptiveConfig.maxPatternHistory
                    THEN Tail(pushed) ELSE pushed
        successCount == Len(SelectSeq(patterns, LAMBDA p : p.success))
        total == SumSeq([k \in 1..Len(patterns) |-> patterns[k].executionTime])
    IN  [exists |-> TRUE,
         successRate |-> <<successCount, Len(patterns)>>,
         avgExecutionTime |-> <<total, Len(patterns)>>,
         resourceEfficiency |->
             calculateResourceEfficiency(result.memoryPct,
                                         adaptiveConfig.resourceWeights),
         cacheEffectiveness |-> profile.cacheEffectiveness,
         patterns |-> patterns]

profileTool(t, result) ==
    /\ toolProfiles' = [toolProfiles EXCEPT ![t] = ProfiledWith(t, result)]
    /\ UNCHANGED <<adaptiveConfig, plan, adaptiveTools, adaptiveLog, storedPatterns>>

\* Math.max(1, Math.floor(5 * resourceEfficiency * successRate)); Math.max
\* of NaN is NaN
calculateOptimalBatchSize(profile) ==
    IF ~profile.exists THEN <<1, 1>>
    ELSE IF IsNaN(profile.resourceEfficiency) \/ IsNaN(profile.successRate) THEN NaN
    ELSE LET floor == (5 * profile.resourceEfficiency[1] * profile.successRate[1])
                          \div (profile.resourceEfficiency[2] * profile.successRate[2])
         IN  <<IF floor < 1 THEN 1 ELSE floor, 1>>

\* Math.min(Math.max(avgExecutionTime * 2 * (1 + (1 - successRate)), 5000),
\* 60000); Math.max and Math.min of NaN are NaN
calculateOptimalTimeout(profile) ==
    IF ~profile.exists THEN <<30000, 1>>
    ELSE IF IsNaN(profile.avgExecutionTime) \/ IsNaN(profile.successRate) THEN NaN
    ELSE LET num == 2 * profile.avgExecutionTime[1]
                      * (2 * profile.successRate[2] - profile.successRate[1])
             den == profile.avgExecutionTime[2] * profile.successRate[2]
         IN  IF num < 5000 * den THEN <<5000, 1>>
             ELSE IF num > 60000 * den THEN <<60000, 1>>
             ELSE <<num, den>>

\* Math.ceil(3 * (1 - (profile?.successRate || 0.5))): 0 and NaN are falsy
MaxRetriesOf(profile) ==
    IF ~profile.exists \/ IsNaN(profile.successRate) \/ profile.successRate[1] = 0
    THEN 2
    ELSE CeilDiv(3 * (profile.successRate[2] - profile.successRate[1]),
                 profile.successRate[2])

\* profile.patterns.filter(similar).length / profile.patterns.length
calculateCacheHitProbability(profile, signature) ==
    IF ~profile.exists THEN <<0, 1>>
    ELSE <<Len(SelectSeq(profile.patterns, LAMBDA p : p.inputSignature = signature)),
           Len(profile.patterns)>>

\* the plan generateExecutionPlan returns; executionCache is never written,
\* so cachedResult is undefined
ExecutionPlanOf(t, signature) ==
    LET profile == toolProfiles[t]
        \* Math.min(avgExecutionTime * 10, cacheTimeout)
        cacheDuration ==
            IF ~profile.exists THEN <<adaptiveConfig.cacheTimeout, 1>>
            ELSE IF IsNaN(profile.avgExecutionTime) THEN NaN
            ELSE IF 10 * profile.avgExecutionTime[1]
                        < adaptiveConfig.cacheTimeout * profile.avgExecutionTime[2]
            THEN <<10 * profile.avgExecutionTime[1], profile.avgExecutionTime[2]>>
            ELSE <<adaptiveConfig.cacheTimeout, 1>>
        \* profile?.avgExecutionTime || 1000
        executionTime ==
            IF ~profile.exists \/ IsNaN(profile.avgExecutionTime)
                               \/ profile.avgExecutionTime[1] = 0
            THEN <<1000, 1>> ELSE profile.avgExecutionTime
    IN  [tool |-> t,
         profile |-> profile,
         strategy |->
             [shouldCache |-> profile.exists
                              /\ 10 * profile.cacheEffectiveness > 7,
              cacheDuration |-> cacheDuration,
              batchSize |-> calculateOptimalBatchSize(profile),
              timeout |-> calculateOptimalTimeout(profile),
              retryStrategy |-> [maxRetries |-> MaxRetriesOf(profile),
                                 initialDelay |-> 1000]],
         estimatedMetrics |->
             [executionTime |-> executionTime,
              cacheHitProbability |->
                  calculateCacheHitProbability(profile, signature)]]

generateExecutionPlan(t, signature) ==
    /\ plan' = ExecutionPlanOf(t, signature)
    /\ UNCHANGED <<adaptiveConfig, toolProfiles, adaptiveTools, adaptiveLog, storedPatterns>>

(***************************************************************************)
(* Library functions that keep no state (determineRetryStrategy,          *)
(* truncateConversation) are applied to arguments a caller supplies:      *)
(* libCall holds the arguments of one call and, once the function has     *)
(* returned, its result.                                                   *)
(***************************************************************************)
VARIABLES
    libCall         \* [fn, args, returned, result] of a library call

libVars == <<libCall>>

NoCall == [fn |-> "none", args |-> << >>, returned |-> FALSE, result |-> << >>]

LibInit == libCall = NoCall

\* the components the two processors share no state with
sideVars == <<libVars, adaptiveVars>>

SideInit == LibInit /\ AdaptiveInitWith(DefaultAdaptiveConfig)

vars == <<coordinatorVars, pipelineVars, basicVars, sideVars>>

Init == EnhancedInit /\ BasicInit /\ SideInit

(***************************************************************************)
(* Steps of the processors' environment                                    *)
(***************************************************************************)
\* what the collaborators do in one call (see RunTool)
ToolRuns(execs, contents, thrown, durs, samples) ==
    [exec : execs \cap {"ok", "failres"}, content : contents, thrown : {{}},
     dur : durs, sample : samples, hookMessage : {{}}]
    \cup
    [exec : execs \cap {"throws"}, content : {<< >>}, thrown : thrown,
     dur : durs, sample : samples, hookMessage : {{}}]
    \cup
    [exec : execs \cap {"timeout"}, content : {<< >>}, thrown : {{}},
     dur : {0}, sample : samples, hookMessage : {{}}]

CoolSample == [memory |-> 50000000, cpu |-> 40]

\* `Please wait ${waitTime} seconds before retrying`
WaitTime(t) == CeilDiv(toolTimeouts[t] - (now - lastToolExecution[t]), 1000)

ClockOpen(d) == now + d <= StartTime + MaxWindows * LOOP_TIME_WINDOW

\* the caller waits as long as the cooldown message told it to
WaitOutCooldown ==
    /\ run.status = "idle"
    /\ \E t \in tools : /\ InCooldown(t, now)
                        /\ ClockOpen(WaitTime(t) * 1000)
                        /\ Tick(WaitTime(t) * 1000)
    /\ UNCHANGED <<pipelineVars, basicVars, sideVars>>

\* the caller stays away for a whole loop-detection window
WaitOutWindow ==
    /\ run.status = "idle"
    /\ ClockOpen(LOOP_TIME_WINDOW)
    /\ Tick(LOOP_TIME_WINDOW)
    /\ UNCHANGED <<pipelineVars, basicVars, sideVars>>

\* an event of the running pipeline, with the resource reading `sample`
StageEvent(samples) ==
    /\ \E i \in 1..Len(run.members), sample \in samples : StageStep(i, sample)
    /\ UNCHANGED <<toolVars, basicVars, sideVars>>

BackgroundEvent(samples) ==
    /\ \E j \in 1..Len(background), sample \in samples : BackgroundStep(j, sample)
    /\ UNCHANGED <<toolVars, basicVars, sideVars>>

\* The two processors share no state, so a run is explored with one of them.
EnhancedUntouched ==
    /\ tools = {} /\ hooks = NoHooks /\ callLog = << >>
    /\ run = IdleRun /\ Len(stages) = 1

BasicUntouched ==
    basicStages = << >> /\ basicTools = {} /\ basicHooks = NoHooks /\ basicLog = << >>

(***************************************************************************)
(* SpecTool: both processors with two tools, every kind of tool outcome   *)
(* and hooks, for a few calls                                              *)
(***************************************************************************)
HookConfigs ==
    {[beforeExecution |-> "ok", afterExecution |-> "ok", onError |-> "ok"],
     [beforeExecution |-> "throws", afterExecution |-> "none", onError |-> "none"],
     [beforeExecution |-> "none", afterExecution |-> "throws", onError |-> "throws"]}

ToolCallStarts ==
    /\ BasicUntouched
    /\ Len(callLog) < MaxCalls
    /\ \E t \in ToolNames, p \in {"p1", "bad"} : StartProcess(ToolContext(t, p))
    /\ UNCHANGED <<basicVars, sideVars>>

ToolStageEvent == StageEvent({WithinLimits})

ToolCallFinishes ==
    /\ \E e \in ToolRuns({"ok", "failres", "throws", "timeout"},
                         {<<"o", "k">>}, {{}}, {0}, {CoolSample}) : FinishProcess(e)
    /\ UNCHANGED <<basicVars, sideVars>>

\* tools and hooks are set up before the first call
RegisterStep ==
    /\ BasicUntouched
    /\ callLog = << >> /\ run.status = "idle"
    /\ \E t \in ToolNames : registerTool(t)
    /\ UNCHANGED <<pipelineVars, basicVars, sideVars>>

HooksStep ==
    /\ BasicUntouched
    /\ callLog = << >> /\ run.status = "idle"
    /\ \E h \in HookConfigs : setToolHooks(h)
    /\ UNCHANGED <<pipelineVars, basicVars, sideVars>>

BasicCallStep ==
    /\ EnhancedUntouched
    /\ Len(basicLog) < MaxCalls
    /\ \E t \in ToolNames, p \in {"p1", "bad"},
          e \in ToolRuns({"ok", "failres", "throws"},
                         {<<"o", "k">>}, {{}}, {0}, {CoolSample}) :
          basicProcess(ToolContext(t, p), e)
    /\ UNCHANGED <<coordinatorVars, pipelineVars, sideVars>>

BasicRegisterStep ==
    /\ EnhancedUntouched
    /\ basicLog = << >>
    /\ \E t \in ToolNames : basicRegisterTool(t)
    /\ UNCHANGED <<coordinatorVars, pipelineVars, sideVars>>

BasicHooksStep ==
    /\ EnhancedUntouched
    /\ basicLog = << >>
    /\ \E h \in HookConfigs : basicSetToolHooks(h)
    /\ UNCHANGED <<coordinatorVars, pipelineVars, sideVars>>

ToolNext ==
    \/ ToolCallStarts
    \/ ToolStageEvent
    \/ ToolCallFinishes
    \/ RegisterStep
    \/ HooksStep
    \/ WaitOutCooldown
    \/ WaitOutWindow
    \/ BasicCallStep
    \/ BasicRegisterStep
    \/ BasicHooksStep

SpecTool == Init /\ [][ToolNext]_vars

(***************************************************************************)
(* Properties of the tool dispatch (SpecTool)                              *)
(***************************************************************************)
\* in one handled call, execute comes after validate and only for
\* parameters that validate accepts
ExecutedAfterAccepted(entry) ==
    \A k \in 1..Len(entry.events) :
        entry.events[k] = "execute"
            => /\ \E j \in 1..(k - 1) : entry.events[j] = "validate"
               /\ Validate(entry.tool, entry.params)

\* C3: in EnhancedMessageProcessor.process and in MessageProcessor.process,
\* tool.validate is called before tool.execute, and tool.execute is never
\* called when validate returned false.
C3_ValidateBeforeExecute ==
    /\ \A i \in 1..Len(callLog) : ExecutedAfterAccepted(callLog[i])
    /\ \A i \in 1..Len(basicLog) : ExecutedAfterAccepted(basicLog[i])

\* one call reached execute and another one was refused by validate
C3_Witness ==
    /\ \E i \in 1..Len(callLog) : Contains(callLog[i].events, "execute")
    /\ \E i \in 1..Len(callLog) :
          /\ callLog[i].outcome = "invalid"
          /\ Contains(callLog[i].events, "validate")

\* the tool step of process() for registered tool t, reached while the
\* time since lastToolExecution is below toolTimeouts
GatedCall(t) ==
    /\ run.status = "resolved"
    /\ run'.status = "idle"
    /\ run.context.requiresToolExecution
    /\ run.context.toolExecution.toolName = t
    /\ t \in tools
    /\ lastToolExecution[t] # 0
    /\ now - lastToolExecution[t] < toolTimeouts[t]

\* C8: a call made while the time since lastToolExecution is below
\* toolTimeouts fails at once with the wait-time message and has no other
\* effect: no hook, validate or execute is invoked, and the retry counter,
\* the cooldown, the last-execution time, the error history, the
\* performance statistics and the recent-execution log stay as they were.
C8_CooldownFrame ==
    [][\A t \in ToolNames :
          GatedCall(t)
              => /\ UNCHANGED <<now, tools, hooks, toolTimeouts, toolRetryCount,
                                lastToolExecution, toolErrors, toolPerformance,
                                servicePerformance, recentExecutions>>
                 /\ Len(callLog') = Len(callLog) + 1
                 /\ Last(callLog').events = << >>
                 /\ ~Last(callLog').success
                 /\ Last(callLog').error = InTimeoutMessage]_vars

\* a call was refused by the cooldown gate
C8_Witness == \E i \in 1..Len(callLog) : callLog[i].outcome = "cooldown"

(***************************************************************************)
(* SpecLoop: one series of calls of a registered tool with parameters     *)
(* that validate accepts, long enough for the loop check to trip           *)
(***************************************************************************)
MaxLoopCalls == 5

LoopCallStarts ==
    /\ Len(callLog) < MaxLoopCalls
    /\ \E t \in tools, p \in {"p1", "p2"} : StartProcess(ToolContext(t, p))
    /\ UNCHANGED <<basicVars, sideVars>>

LoopCallFinishes ==
    /\ \E e \in ToolRuns({"ok", "throws"}, {<<"o", "k">>}, {{}}, {0}, {CoolSample}) :
          FinishProcess(e)
    /\ UNCHANGED <<basicVars, sideVars>>

LoopRegisterStep ==
    /\ callLog = << >> /\ run.status = "idle"
    /\ registerTool("read_file")
    /\ UNCHANGED <<pipelineVars, basicVars, sideVars>>

LoopNext ==
    \/ LoopRegisterStep
    \/ LoopCallStarts
    \/ ToolStageEvent
    \/ LoopCallFinishes
    \/ WaitOutCooldown

SpecLoop == Init /\ [][LoopNext]_vars

\* the executions recorded for t with exactly the parameters p that the
\* loop window still holds at `time`
RecordedSame(t, p, time) ==
    SelectSeq(recentExecutions[t],
              LAMBDA exec : exec.params = p /\ time - exec.timestamp < LOOP_TIME_WINDOW)

\* process() reaches executeTool for tool t and parameters p, which validate
\* accepts, with MAX_SIMILAR_EXECUTIONS identical executions on record
LoopingCall(t, p) ==
    /\ run.status = "resolved" /\ run'.status = "idle"
    /\ run.context.requiresToolExecution
    /\ run.context.toolExecution = [toolName |-> t, params |-> p]
    /\ t \in tools /\ Validate(t, p)
    /\ hooks = NoHooks
    /\ Len(RecordedSame(t, p, now)) >= MAX_SIMILAR_EXECUTIONS


\* the calls made so far for tool t with parameters p, in order
SameCalls(t, p) == SelectSeq(callLog, LAMBDA c : c.tool = t /\ c.params = p)

MaxRetryCalls == 7

RetryCallStarts ==
    /\ Len(callLog) < MaxRetryCalls
    /\ \E t \in tools : StartProcess(ToolContext(t, "bad"))
    /\ UNCHANGED <<basicVars, sideVars>>

RetryCallFinishes ==
    /\ \E e \in ToolRuns({"ok"}, {<<"o", "k">>}, {{}}, {0}, {CoolSample}) :
          FinishProcess(e)
    /\ UNCHANGED <<basicVars, sideVars>>

RetryNext ==
    \/ LoopRegisterStep
    \/ HooksStep
    \/ RetryCallStarts
    \/ ToolStageEvent
    \/ RetryCallFinishes
    \/ WaitOutCooldown

SpecRetry == Init /\ [][RetryNext]_vars

\* process() reaches tool.validate for tool t with parameters it refuses
RefusedCall(t, p) ==
    /\ run.status = "resolved" /\ run'.status = "idle"
    /\ run.context.requiresToolExecution
    /\ run.context.toolExecution = [toolName |-> t, params |-> p]
    /\ t \in tools /\ ~Validate(t, p)
    /\ hooks.beforeExecution # "throws"
    /\ ~(lastToolExecution[t] # 0 /\ now - lastToolExecution[t] < toolTimeouts[t])

\* C2: the first MAX_RETRIES calls that reach a validate that refuses are
\* answered with the invalid-parameters failure and counted; every call
\* that reaches validate after exactly MAX_RETRIES of them is answered with
\* the tool-disabled failure and leaves the tool in cooldown.  None of
\* these calls waits for anything (the clock does not move) or invokes
\* execute, and a call made while the cooldown runs is refused without
\* validate being invoked.
C2_DisabledAfterMaxRetries ==
    [][\A t \in ToolNames, p \in ParamNames :
          /\ RefusedCall(t, p)
                => /\ now' = now
                   /\ Last(callLog').settled = "resolved"
                   /\ ~Last(callLog').success
                   /\ Last(callLog').hasError
                   /\ Contains(Last(callLog').events, "validate")
                   /\ ~Contains(Last(callLog').events, "execute")
                   /\ toolRetryCount'[t] = toolRetryCount[t] + 1
                   /\ IF toolRetryCount[t] < MAX_RETRIES
                      THEN Last(callLog').outcome = "invalid"
                      ELSE /\ Last(callLog').outcome = "disabled"
                           /\ lastToolExecution'[t] = now
                           /\ toolTimeouts'[t] >= ToolTimeout(t)
          /\ GatedCall(t) /\ toolRetryCount[t] > MAX_RETRIES
                => /\ Last(callLog').events = << >>
                   /\ ~Last(callLog').success
                   /\ toolRetryCount'[t] = toolRetryCount[t]]_vars

\* the sixth refused call was answered with the tool-disabled failure after
\* five invalid-parameters failures, and a call during the cooldown that
\* followed was refused at the gate
C2_Witness ==
    \E i, j \in 1..Len(callLog) :
        /\ callLog[i].outcome = "disabled"
        /\ Len(SelectSeq(SubSeq(callLog, 1, i - 1),
                         LAMBDA c : c.outcome = "invalid" /\ c.tool = callLog[i].tool))
               = MAX_RETRIES
        /\ j > i
        /\ callLog[j].tool = callLog[i].tool
        /\ callLog[j].outcome = "cooldown"


(***************************************************************************)
(* SpecPipe: an EnhancedPipeline on its own; the stages are added, then   *)
(* the pipeline is run, each run after the attempts of the one before     *)
(* have come to rest                                                       *)
(***************************************************************************)
MaxAdds == 2
MaxRuns == 2

PipeStages ==
    {StageConfig("A", "pass", FALSE, {}, Unset, FALSE, "none"),
     StageConfig("B", "pass", FALSE, {"A"}, Unset, FALSE, "none"),
     StageConfig("A", "pass", FALSE, {"B"}, Unset, FALSE, "none"),
     StageConfig("", "pass", FALSE, {}, Unset, FALSE, "none"),
     StageConfig("C", "fail", TRUE, {}, 1, FALSE, "always"),
     StageConfig("C", "hang", FALSE, {}, 2, FALSE, "none"),
     StageConfig("B", "flaky", TRUE, {}, Unset, FALSE, "none"),
     StageConfig("A", "fail", FALSE, {}, 0, TRUE, "none")}

PipeInit == CoordinatorInit /\ PipelineInit /\ BasicInit /\ SideInit

PipeAddStage ==
    /\ run.n = 0
    /\ addResult.n < MaxAdds
    /\ \E stage \in PipeStages : addStage(stage)
    /\ UNCHANGED <<coordinatorVars, basicVars, sideVars>>

PipeProcess ==
    /\ run.n < MaxRuns
    /\ background = << >>
    /\ process(ToolContext("read_file", "p1"))
    /\ UNCHANGED <<toolVars, basicVars, sideVars>>

PipeStageEvent == StageEvent(PipelineSamples)

PipeBackgroundEvent == BackgroundEvent(PipelineSamples)

PipeNext ==
    \/ PipeAddStage
    \/ PipeProcess
    \/ PipeStageEvent
    \/ PipeBackgroundEvent

SpecPipe == PipeInit /\ [][PipeNext]_vars

(***************************************************************************)
(* Properties of the pipeline on its own (SpecPipe)                        *)
(***************************************************************************)
\* the part of executionPath that was pushed since the run started
RunPath == SubSeq(executionPath, run.pathStart + 1, Len(executionPath))

Count(s, x) == Len(SelectSeq(s, LAMBDA y : y = x))

\* C5 as stated: with A (no dependencies) and B (depending on A) as the
\* registered stages, a run that has settled has executed both, A before B.
C5_DependencyOrder ==
    /\ stages = <<ValidatedStage(StageConfig("A", "pass", FALSE, {}, Unset, FALSE, "none")),
                  ValidatedStage(StageConfig("B", "pass", FALSE, {"A"}, Unset, FALSE,
                                             "none"))>>
    /\ run.status \in {"resolved", "rejected"}
    => /\ run.status = "resolved"
       /\ RunPath = <<"A", "B">>

\* ids are non-empty and unique, and every dependency names a stage
\* registered earlier
StagesWellFormed ==
    \A i \in 1..Len(stages) :
        /\ stages[i].id # ""
        /\ \A j \in 1..Len(stages) : stages[j].id = stages[i].id => j = i
        /\ \A d \in stages[i].dependencies : \E j \in 1..(i - 1) : stages[j].id = d

\* what an addStage call does, read off the stage it was given
AddStageOutcome ==
    addResult'.n # addResult.n
        => /\ executionPath' = executionPath /\ run' = run /\ metrics' = metrics
           /\ IF \/ addResult'.id = ""
                 \/ \E i \in 1..Len(stages) : stages[i].id = addResult'.id
                 \/ \E d \in addResult'.dependencies :
                        \A i \in 1..Len(stages) : stages[i].id # d
              THEN addResult'.threw /\ stages' = stages
              ELSE /\ ~addResult'.threw
                   /\ Len(stages') = Len(stages) + 1
                   /\ SubSeq(stages', 1, Len(stages)) = stages
                   /\ Last(stages').id = addResult'.id
                   /\ Last(stages').dependencies = addResult'.dependencies

\* C6: the registered stages always have non-empty, unique ids and depend
\* only on stages registered before them (so there is no cycle); addStage
\* with an empty id, a duplicate id or a dependency that is not registered
\* throws, runs nothing and leaves the registered stages as they were.
C6_AddStageKeepsGraphAcyclic == []StagesWellFormed /\ [][AddStageOutcome]_vars

\* with A registered, closing the cycle A -> B -> A was attempted and threw
C6_Witness ==
    /\ addResult.threw
    /\ addResult.id = "A" /\ addResult.dependencies = {"B"}
    /\ Len(stages) = 1

\* the retry warnings pushed for stage id since the run started
RetryWarnings(id) ==
    SelectSeq(SubSeq(metrics.warnings, run.warningStart + 1, Len(metrics.warnings)),
              LAMBDA w : w.kind = "retry" /\ (id = Undefined \/ w.stageId = id))

StageOf(id) == stages[CHOOSE i \in 1..Len(stages) : stages[i].id = id]

\* C10: a run that was rejected with a stage's own error (no resource
\* ceiling in the way, errors not ignored) has invoked that stage's process
\* maxRetries + 1 times and has retried it maxRetries times, each retry
\* adding one to recoveryAttempts, and no stage of a later group was
\* invoked; a run does not resolve past a stage that fails on every attempt.
C10_RetriesThenRejects ==
    /\ run.status = "rejected" /\ run.error.kind = "stage"
       => /\ Count(RunPath, run.error.stageId)
                 = StageOf(run.error.stageId).maxRetries + 1
          /\ Len(RetryWarnings(run.error.stageId))
                 = StageOf(run.error.stageId).maxRetries
          /\ metrics.recoveryAttempts - run.recoveryStart = Len(RetryWarnings(Undefined))
          /\ \A g \in 1..Len(run.groups) : \A k \in 1..Len(run.groups[g]) :
                 ~Contains(RunPath, stages[run.groups[g][k]].id)
    /\ run.status = "resolved"
       => \A i \in 1..Len(stages) :
              stages[i].kind \in {"fail", "hang"}
                  => stages[i].ignoreErrors \/ stages[i].condition = "never"

\* the stage that times out on each of its three attempts has rejected the
\* run, with a later stage still waiting
C10_Witness ==
    /\ run.status = "rejected" /\ run.error.kind = "stage"
    /\ StageOf(run.error.stageId).kind = "hang"
    /\ Count(RunPath, run.error.stageId) = 3
    /\ metrics.recoveryAttempts - run.recoveryStart = 2
    /\ run.groups # << >>



(***************************************************************************)
(* SpecProc: EnhancedMessageProcessor with stages added to its pipeline,  *)
(* and MessageProcessor with stages, for contexts of every kind            *)
(***************************************************************************)
\* a message that embeds a directive for execute_command with an unsafe
\* command; the caller asks for no tool
DirectiveContext ==
    [ToolContext("execute_command", "unsafe") EXCEPT
        !.message.directive = [toolName |-> "execute_command", params |-> "unsafe"],
        !.requiresToolExecution = FALSE,
        !.toolExecution = NoToolExecution]

ProcContexts ==
    {ToolContext("execute_command", "p1"),
     ToolContext("execute_command", "unsafe"),
     DirectiveContext,
     [ToolContext("execute_command", "p1") EXCEPT !.mode = ""]}

ProcStages ==
    {enhanceStage("tool-parser", "tool-parser"),
     StageConfig("A", "pass", TRUE, {}, Unset, FALSE, "none"),
     StageConfig("B", "pass", FALSE, {"A"}, Unset, FALSE, "none")}

ProcAddStage ==
    /\ BasicUntouched
    /\ callLog = << >>
    /\ addResult.n <= MaxAdds
    /\ \E stage \in ProcStages : addPipelineStage(stage)
    /\ UNCHANGED <<basicVars, sideVars>>

ProcRegisterStep ==
    /\ BasicUntouched
    /\ callLog = << >> /\ run.status = "idle"
    /\ registerTool("execute_command")
    /\ UNCHANGED <<pipelineVars, basicVars, sideVars>>

ProcCallStarts ==
    /\ BasicUntouched
    /\ Len(callLog) < MaxCalls
    /\ \E context \in ProcContexts : StartProcess(context)
    /\ UNCHANGED <<basicVars, sideVars>>

ProcCallFinishes ==
    /\ \E e \in ToolRuns({"ok", "throws", "timeout"},
                         {<<"o", "k">>}, {{}}, {0}, {CoolSample}) : FinishProcess(e)
    /\ UNCHANGED <<basicVars, sideVars>>

BasicAddStageStep ==
    /\ EnhancedUntouched
    /\ basicLog = << >>
    /\ Len(basicStages) < MaxAdds
    /\ \E stage \in {enhanceStage("tool-parser", "tool-parser"),
                     enhanceStage("C", "fail")} : basicAddPipelineStage(stage)
    /\ UNCHANGED <<coordinatorVars, pipelineVars, sideVars>>

BasicProcCallStep ==
    /\ EnhancedUntouched
    /\ Len(basicLog) < MaxCalls
    /\ \E context \in ProcContexts,
          e \in ToolRuns({"ok", "throws"}, {<<"o", "k">>}, {{}}, {0}, {CoolSample}) :
          basicProcess(context, e)
    /\ UNCHANGED <<coordinatorVars, pipelineVars, sideVars>>

ProcNext ==
    \/ ProcAddStage
    \/ ProcRegisterStep
    \/ HooksStep
    \/ ProcCallStarts
    \/ ToolStageEvent
    \/ ProcCallFinishes
    \/ WaitOutCooldown
    \/ BasicAddStageStep
    \/ BasicRegisterStep
    \/ BasicHooksStep
    \/ BasicProcCallStep

SpecProc == Init /\ [][ProcNext]_vars

(***************************************************************************)
(* Properties of the processors with stages (SpecProc)                     *)
(***************************************************************************)
\* C4 as stated: no call invokes execute for a descriptor that the security
\* screen refuses, however the descriptor came into the context, and such a
\* call ends in a failed result.
C4_NoUnsafeExecute ==
    \A i \in 1..Len(callLog) :
        /\ callLog[i].tool # Undefined
        /\ validateToolSecurity(callLog[i].tool, callLog[i].params)
        => /\ ~Contains(callLog[i].events, "execute")
           /\ ~callLog[i].success

\* the outcomes that are failures
FailureOutcomes ==
    {"pipeline", "not_found", "cooldown", "invalid", "disabled", "loop", "timeout",
     "threw", "before_hook", "after_hook"}

ResolvedAsFailure(entry) ==
    /\ entry.settled = "resolved"
    /\ entry.outcome \in FailureOutcomes => ~entry.success /\ entry.hasError

\* C7: every process() call of either processor resolves, and for every
\* failure (of a stage, of the stage planning, an unknown tool, a cooldown
\* refusal, refused parameters, a tool that throws or times out, a hook
\* that throws) the result has success false and carries the error.
C7_ProcessNeverRejects ==
    /\ \A i \in 1..Len(callLog) : ResolvedAsFailure(callLog[i])
    /\ \A i \in 1..Len(basicLog) : ResolvedAsFailure(basicLog[i])

\* one call failed in the validation stage, and another in a tool whose
\* timeout fired and whose onError hook threw in turn
C7_Witness ==
    \E i, j \in 1..Len(callLog) :
        /\ callLog[i].outcome = "pipeline"
        /\ callLog[i].error = {"validation"}
        /\ callLog[j].outcome = "timeout"
        /\ callLog[j].rejected

\* C9 as stated: in a run of the enhanced processor, a stage other than
\* the built-in validation is invoked only after validation was invoked,
\* and not at all when validation refused the context.
C9_ValidationFirst ==
    \A k \in 1..Len(RunPath) :
        RunPath[k] # "validation"
            => /\ \E j \in 1..(k - 1) : RunPath[j] = "validation"
               /\ \A n \in (run.errorStart + 1)..Len(metrics.errors) :
                      metrics.errors[n].stageId # "validation"

\* C11 as stated: a run that the validation stage rejected has invoked the
\* stage's process once, has waited for no retry and has retried nothing.
C11_ValidationNotRetried ==
    run.status = "rejected" /\ run.error.kind = "stage"
        /\ run.error.stageId = "validation"
    => /\ Count(RunPath, "validation") = 1
       /\ RetryWarnings("validation") = << >>
       /\ metrics.recoveryAttempts = run.recoveryStart

(***************************************************************************)
(* Properties of the stage attempts (SpecPipe)                             *)
(***************************************************************************)
\* the reading is above one of the stage's ceilings
CeilingExceeded(stage, sample) ==
    \/ stage.maxMemory # 0 /\ sample.heapUsed > stage.maxMemory
    \/ stage.maxCpu # 0 /\ sample.cpu > stage.maxCpu

\* C12 as stated: when an attempt of a stage settles, by resolving or by
\* throwing, while heap or CPU usage is above the stage's ceiling, the stage
\* fails at once with the resource-limit error and the run is rejected with
\* it; nothing is retried.
C12_CeilingAfterEveryAttempt ==
    [][\A i \in 1..Len(run.members) : \A sample \in PipelineSamples :
           /\ run.status = "running"
           /\ run.members[i].state = "pending"
           /\ CeilingExceeded(stages[run.members[i].stage], sample)
           /\ StageStep(i, sample)
           => /\ run'.status = "rejected"
              /\ run'.error.kind \in {"memory", "cpu"}
              /\ run'.error.stageId = stages[run.members[i].stage].id
              /\ metrics'.recoveryAttempts = metrics.recoveryAttempts]_vars

(***************************************************************************)
(* SpecGroup: an EnhancedPipeline whose stages have priorities, run in     *)
(* parallel groups or declare branches                                     *)
(***************************************************************************)
BranchStage(id, kind) == StageConfig(id, kind, FALSE, {}, Unset, FALSE, "none")

Branch(id, condition, branchStages) ==
    [id |-> id, condition |-> condition, stages |-> branchStages]

GroupStages ==
    {[StageConfig("A", "tag", TRUE, {}, Unset, FALSE, "none") EXCEPT !.priority = 2],
     [StageConfig("B", "tag", TRUE, {}, Unset, FALSE, "none") EXCEPT !.priority = 1],
     [StageConfig("B", "late-tag", TRUE, {}, Unset, FALSE, "none") EXCEPT !.priority = 1],
     StageConfig("C", "tool-parser", TRUE, {}, Unset, FALSE, "none"),
     [StageConfig("A", "tag", FALSE, {}, Unset, FALSE, "none") EXCEPT
         !.priority = 1,
         !.branches = <<Branch("b1", "never", <<BranchStage("D", "tag")>>),
                        Branch("b2", "always", <<BranchStage("E", "tag")>>),
                        Branch("b3", "always", <<BranchStage("D", "tag")>>)>>],
     [StageConfig("B", "fail", FALSE, {}, 1, FALSE, "none") EXCEPT
         !.branches = <<Branch("b1", "always", <<BranchStage("D", "tag")>>)>>],
     [StageConfig("C", "tool-parser", FALSE, {}, 1, FALSE, "none") EXCEPT
         !.branches = <<Branch("b1", "tool", <<BranchStage("E", "fail"),
                                               BranchStage("D", "tag")>>)>>]}

GroupContexts == {ToolContext("read_file", "p1"), DirectiveContext}

GroupAddStage ==
    /\ run.n = 0
    /\ addResult.n < MaxAdds
    /\ \E stage \in GroupStages : addStage(stage)
    /\ UNCHANGED <<coordinatorVars, basicVars, sideVars>>

GroupProcess ==
    /\ run.n < MaxRuns
    /\ background = << >>
    /\ \E context \in GroupContexts : process(context)
    /\ UNCHANGED <<toolVars, basicVars, sideVars>>

GroupStageEvent == StageEvent({WithinLimits})

GroupNext ==
    \/ GroupAddStage
    \/ GroupProcess
    \/ GroupStageEvent

SpecGroup == PipeInit /\ [][GroupNext]_vars

(***************************************************************************)
(* Properties of branches, parallel groups and priorities (SpecGroup)      *)
(***************************************************************************)
\* C13 as stated: the process of a registered stage is not invoked with a
\* context for which one of the stage's branch conditions holds, and the
\* branch whose stages run is the first whose condition holds for the
\* context the stage was given.
C13_BranchReplacesProcess ==
    \A i \in 1..Len(run.members) :
        /\ run.members[i].state = "pending" /\ run.members[i].branch = << >>
           => FirstBranch(stages[run.members[i].stage].branches,
                          run.members[i].context) = 0
        /\ run.members[i].branch # << >>
           => run.members[i].branch[1]
                  = FirstBranch(stages[run.members[i].stage].branches,
                                run.members[i].outer.context)

\* the results of a group, merged as the claim has it: every field from the
\* last member in group order that has it, every metadata key from the last
\* member that has the key
LastWith(results, Has(_)) ==
    results[CHOOSE i \in 1..Len(results) :
                /\ Has(results[i])
                /\ \A j \in (i + 1)..Len(results) : ~Has(results[j])]

ShallowMerge(results) ==
    [message |-> Last(results).message,
     mode |-> Last(results).mode,
     workingDirectory |-> Last(results).workingDirectory,
     requiresToolExecution |-> Last(results).requiresToolExecution,
     toolExecution |->
         IF \A i \in 1..Len(results) : results[i].toolExecution = NoToolExecution
         THEN NoToolExecution
         ELSE LastWith(results, LAMBDA c : c.toolExecution # NoToolExecution).toolExecution,
     metadata |->
         {kv \in UNION {results[i].metadata : i \in 1..Len(results)} :
             kv \in LastWith(results, LAMBDA c : \E e \in c.metadata : e[1] = kv[1]).metadata}]

\* every attempt of a member of a group of two or more is given the context
\* the group was given
SameInput ==
    run.status = "running" /\ Len(run.members) >= 2
    => \A i \in 1..Len(run.members) :
           /\ IsActive(run.members[i]) /\ run.members[i].branch = << >>
              => run.members[i].context = run.context
           /\ run.members[i].branch # << >>
              => run.members[i].outer.context = run.context

\* the result of the member that completes in this step
ResultOf(m) == StageProcess(CurrentStage(m), m.context, m.retryCount).context

\* the step that ends a group of two or more: one member was left, and the
\* context that goes on is the merge of the results in group order
GroupEnds ==
    /\ run.status = "running" /\ Len(run.members) >= 2
    /\ run'.n = run.n
    /\ run'.status = "resolved" \/ Len(run'.groups) < Len(run.groups)
    => /\ Cardinality({i \in 1..Len(run.members) : IsActive(run.members[i])}) = 1
       /\ run'.context =
              ShallowMerge([i \in 1..Len(run.members) |->
                               IF IsActive(run.members[i])
                               THEN ResultOf(run.members[i])
                               ELSE run.members[i].context])
       /\ Last(metrics'.parallelGroups)
              = [i \in 1..Len(run.members) |-> stages[run.members[i].stage].id]

\* while a member of the group is not done, the group stays and the run
\* does not resolve
GroupWaits ==
    /\ run.status = "running"
    /\ Cardinality({i \in 1..Len(run.members) : IsActive(run.members[i])}) >= 2
    => /\ run'.status # "resolved"
       /\ run'.status = "running" => run'.groups = run.groups

\* C14: the members of a parallel group are all given the group's input
\* context, the next group starts (or the run resolves) only with the step
\* in which the last member completes, and the context that goes on is the
\* shallow merge of the members' results in group order (a field or
\* metadata key comes from the last member in group order that has it),
\* whatever the order in which the members completed.
C14_ParallelGroupMerge == []SameInput /\ [][GroupEnds /\ GroupWaits]_vars

\* the group <<B, A>> has resolved: A, last in group order, completed first
\* while B was retried, and A's values are the ones that went on
C14_Witness ==
    /\ run.status = "resolved"
    /\ metrics.parallelGroups # << >>
    /\ Last(metrics.parallelGroups) = <<"B", "A">>
    /\ metrics.stageMetrics["B"] = 1 /\ metrics.stageMetrics["A"] = 0
    /\ run.context.mode = "A"
    /\ {<<"last", "A">>, <<"A", "done">>, <<"B", "done">>} \subseteq run.context.metadata
    /\ <<"last", "B">> \notin run.context.metadata

\* the place of the first invocation of stage id in this run, 0 for none
FirstRun(id) == IndexOf(RunPath, id)

\* C15 as stated: of two registered stages, neither depending on the
\* other, that a run has both invoked, the one with the lower priority
\* number was invoked first.
C15_PriorityOrder ==
    \A i, j \in 1..Len(stages) :
        /\ stages[i].priority < stages[j].priority
        /\ stages[i].id \notin stages[j].dependencies
        /\ stages[j].id \notin stages[i].dependencies
        /\ FirstRun(stages[i].id) # 0 /\ FirstRun(stages[j].id) # 0
        => FirstRun(stages[i].id) < FirstRun(stages[j].id)

(***************************************************************************)
(* SpecFatal: a long series of calls of one tool, always with the same     *)
(* parameters, by a caller that waits out every cooldown; failures can be  *)
(* old enough to have left the burst window when the loop check trips      *)
(***************************************************************************)
MaxFatalCalls == 8

\* the clock of this series runs two loop windows further
FatalClockOpen(d) == now + d <= StartTime + (MaxWindows + 2) * LOOP_TIME_WINDOW

FatalCallStarts ==
    /\ Len(callLog) < MaxFatalCalls
    /\ \E t \in tools :
          /\ ~InCooldown(t, now)
          /\ StartProcess(ToolContext(t, "p1"))
    /\ UNCHANGED <<basicVars, sideVars>>

FatalCallFinishes ==
    /\ \E e \in ToolRuns({"ok", "throws"}, {<<"o", "k">>}, {{}}, {0}, {CoolSample}) :
          FinishProcess(e)
    /\ UNCHANGED <<basicVars, sideVars>>

FatalWaitOutCooldown ==
    /\ run.status = "idle"
    /\ \E t \in tools : /\ InCooldown(t, now)
                        /\ FatalClockOpen(WaitTime(t) * 1000)
                        /\ Tick(WaitTime(t) * 1000)
    /\ UNCHANGED <<pipelineVars, basicVars, sideVars>>

FatalWaitOutWindow ==
    /\ run.status = "idle"
    /\ callLog # << >>
    /\ FatalClockOpen(LOOP_TIME_WINDOW)
    /\ Tick(LOOP_TIME_WINDOW)
    /\ UNCHANGED <<pipelineVars, basicVars, sideVars>>

FatalNext ==
    \/ LoopRegisterStep
    \/ FatalCallStarts
    \/ ToolStageEvent
    \/ FatalCallFinishes
    \/ FatalWaitOutCooldown
    \/ FatalWaitOutWindow

SpecFatal == Init /\ [][FatalNext]_vars

\* C16 as stated: a call refused by the loop check is not taken as
\* retryable, and it leaves the tool with the non-retry cooldown, twice the
\* tool's timeout.
C16_LoopRefusalFatal ==
    [][Len(callLog') > Len(callLog) /\ Last(callLog').outcome = "loop"
       => /\ ~Last(callLog').shouldRetry
          /\ toolTimeouts'[Last(callLog').tool] = 2 * ToolTimeout(Last(callLog').tool)
          /\ lastToolExecution'[Last(callLog').tool] = now']_vars

(***************************************************************************)
(* Hooks as observers of the tool calls (SpecTool)                         *)
(***************************************************************************)
\* the hook invocations of a call, in order
HookEvents(entry) ==
    SelectSeq(entry.events,
              LAMBDA ev : ev \in {"beforeExecution", "afterExecution", "onError"})

\* C18 as stated: with the three hooks installed and none of them throwing,
\* every tool call that ends in failure, for any reason, has invoked onError
\* exactly once, and every tool call that ends in success has invoked
\* beforeExecution and then afterExecution once each and never onError.
C18_HooksObserveEveryCall ==
    hooks = [beforeExecution |-> "ok", afterExecution |-> "ok", onError |-> "ok"]
    => \A i \in 1..Len(callLog) :
           callLog[i].outcome \notin {"pipeline", "message"}
           => IF callLog[i].success
              THEN HookEvents(callLog[i]) = <<"beforeExecution", "afterExecution">>
              ELSE Count(callLog[i].events, "onError") = 1

(***************************************************************************)
(* SpecStrategy: determineRetryStrategy applied to every error analysis,  *)
(* every success / failure record and every retry count of a small range  *)
(***************************************************************************)
\* successCount and failureCount range over 0..MaxCount
MaxCount == 5

ErrorPatterns == {"timeout", "validation", "permission", "resource", "system", "unknown"}

\* the fields of an ErrorAnalysis that determineRetryStrategy reads
ErrorAnalyses ==
    [pattern : ErrorPatterns,
     severity : {"low", "medium", "high"},
     isRecurring : BOOLEAN,
     timing : [hasBurst : BOOLEAN, rapid : BOOLEAN, isRegularPattern : BOOLEAN]]

StrategyArgs ==
    [stats : [successCount : 0..MaxCount, failureCount : 0..MaxCount,
              lastNExecutionTimes : {<< >>}],
     errorPattern : ErrorAnalyses,
     retryCount : 0..(ERROR_THRESHOLD + 1)]

StrategyInit ==
    /\ CoordinatorInit /\ PipelineInit /\ BasicInit
    /\ AdaptiveInitWith(DefaultAdaptiveConfig)
    /\ \E a \in StrategyArgs :
           libCall = [fn |-> "determineRetryStrategy", args |-> a,
                      returned |-> FALSE, result |-> << >>]

StrategyReturns ==
    /\ libCall.fn = "determineRetryStrategy" /\ ~libCall.returned
    /\ libCall' = [libCall EXCEPT
                      !.returned = TRUE,
                      !.result = determineRetryStrategy(libCall.args.stats,
                                                        libCall.args.errorPattern,
                                                        libCall.args.retryCount)]
    /\ UNCHANGED <<coordinatorVars, pipelineVars, basicVars, adaptiveVars>>

StrategyNext == StrategyReturns

SpecStrategy == StrategyInit /\ [][StrategyNext]_vars

\* the four refusals
RetryRefused(a) ==
    \/ a.errorPattern.pattern = "system" /\ a.errorPattern.severity = "high"
    \/ a.errorPattern.pattern = "permission" /\ a.errorPattern.isRecurring
    \/ a.errorPattern.timing.hasBurst
    \/ a.retryCount >= 3

\* patternWeight as the fraction <<numerator, denominator>>
WeightTable(a) ==
    LET base == IF a.errorPattern.pattern = "timeout" THEN <<8, 10>>
                ELSE IF a.errorPattern.pattern = "validation" THEN <<7, 10>>
                ELSE <<5, 10>>
        regular == IF a.errorPattern.timing.isRegularPattern
                   THEN <<base[1] * 7, base[2] * 10>> ELSE base
    IN  IF a.errorPattern.timing.rapid THEN <<regular[1], regular[2] * 2>> ELSE regular

\* successRate * patternWeight > 0.3, the product and the comparison being
\* those of IEEE doubles: 0/0 is NaN and compares false; the product is the
\* exact one except for the weights 0.8 and 0.8 * 0.5, for which a product
\* of exactly 3/10 comes out as 0.30000000000000004
WeightedRateAbove(a, w) ==
    LET s == a.stats.successCount
        total == a.stats.successCount + a.stats.failureCount
    IN  /\ total > 0
        /\ \/ s * w[1] * 10 > 3 * total * w[2]
           \/ /\ s * w[1] * 10 = 3 * total * w[2]
              /\ w \in {<<8, 10>>, <<8, 20>>}

\* C17: determineRetryStrategy returns false for a high-severity system
\* error, a recurring permission error, a reported burst, or a retryCount of
\* 3 or more; in every other case it returns true exactly when successRate
\* times patternWeight is above 0.3 (as the doubles compare), patternWeight
\* being 0.8 for timeout, 0.7 for validation and 0.5 otherwise, times 0.7
\* for a regular pattern and times 0.5 for an average gap under 1000 ms.
C17_RetryStrategy ==
    libCall.fn = "determineRetryStrategy" /\ libCall.returned
    => libCall.result = (IF RetryRefused(libCall.args) THEN FALSE
                         ELSE WeightedRateAbove(libCall.args, WeightTable(libCall.args)))

\* a retry granted after a validation error with regular, slow gaps and 5
\* successes in 8 executions (0.625 * 0.49 > 0.3)
C17_Witness ==
    /\ libCall.fn = "determineRetryStrategy" /\ libCall.returned
    /\ libCall.result = TRUE
    /\ libCall.args.errorPattern.pattern = "validation"
    /\ libCall.args.errorPattern.timing =
           [hasBurst |-> FALSE, rapid |-> FALSE, isRegularPattern |-> TRUE]
    /\ libCall.args.stats.successCount = 5 /\ libCall.args.stats.failureCount = 3
    /\ libCall.args.retryCount = 2

(***************************************************************************)
(* The conversation window (core/sliding-window)                           *)
(*                                                                         *)
(* A message is [role, content, metadata]: content is [form, text] with   *)
(* form "string" (a plain string) or "blocks" (an array with one text     *)
(* block); metadata is NoMetadata or [relevanceScore, semanticGroup], the *)
(* score in tenths.  Options are [maxSize, minRelevanceScore,             *)
(* preserveGroups], a field being Unset (GroupsUnset for preserveGroups)   *)
(* when the caller leaves it out.                                          *)
(***************************************************************************)
GroupsUnset == {Undefined}

NoMetadata == [relevanceScore |-> Unset, semanticGroup |-> Undefined]

\* DEFAULT_OPTIONS, scores in tenths
DEFAULT_OPTIONS ==
    [maxSize |-> 50, minRelevanceScore |-> 3, preserveGroups |-> {"code", "test"}]

\* { ...DEFAULT_OPTIONS, ...options }
WithDefaults(options) ==
    [maxSize |-> IF options.maxSize = Unset THEN DEFAULT_OPTIONS.maxSize
                 ELSE options.maxSize,
     minRelevanceScore |-> IF options.minRelevanceScore = Unset
                           THEN DEFAULT_OPTIONS.minRelevanceScore
                           ELSE options.minRelevanceScore,
     preserveGroups |-> IF options.preserveGroups = GroupsUnset
                        THEN DEFAULT_OPTIONS.preserveGroups
                        ELSE options.preserveGroups]

\* msg.metadata?.relevanceScore || 0
RelevanceOf(msg) ==
    IF msg.metadata.relevanceScore = Unset THEN 0 ELSE msg.metadata.relevanceScore

\* preserveGroups.includes(msg.metadata?.semanticGroup || "")
InPreservedGroup(msg, preserveGroups) == msg.metadata.semanticGroup \in preserveGroups

\* a window that keeps the newest maxSize messages
KeepNewest(messages, options) ==
    LET maxSize == WithDefaults(options).maxSize
    IN  IF Len(messages) <= maxSize THEN messages
        ELSE SubSeq(messages, Len(messages) - maxSize + 1, Len(messages))

\* truncateConversation of core/sliding-window/index.ts.  i is the index of
\* the code (from 0): messages[i] of the code is messages[i + 1] here, and
\* messages[0] of an empty array is undefined.
truncateConversation(messages, options) ==
    LET opts == WithDefaults(options)
        n == Len(messages)
        first == IF n = 0 THEN Undefined ELSE messages[1]
        PairStarts == {i \in 1..(n - 2) : i % 2 = 1}
        shouldPreserve(i) ==
            \/ RelevanceOf(messages[i + 1]) >= opts.minRelevanceScore
            \/ RelevanceOf(messages[i + 2]) >= opts.minRelevanceScore
            \/ InPreservedGroup(messages[i + 1], opts.preserveGroups)
            \/ InPreservedGroup(messages[i + 2], opts.preserveGroups)
        preservedPairs == {i \in PairStarts : shouldPreserve(i)}
        SecondPass[i \in 1..(n + 1)] ==
            IF i = 1 THEN [truncated |-> <<first>>, currentSize |-> 1]
            ELSE LET before == SecondPass[i - 2]
                     at == i - 2
                 IN  IF /\ before.currentSize + 2 <= opts.maxSize
                        /\ (at \in preservedPairs \/ at >= n - 6)
                     THEN [truncated |-> before.truncated
                                           \o <<messages[at + 1], messages[at + 2]>>,
                           currentSize |-> before.currentSize + 2]
                     ELSE before
        \* the first odd index that is not the start of a pair
        Stop == IF n <= 2 THEN 1 ELSE IF n % 2 = 0 THEN n - 1 ELSE n
        Complete(truncated) ==
            IF Len(truncated) % 2 = 0 THEN SubSeq(truncated, 1, Len(truncated) - 1)
            ELSE truncated
    IN  Complete(SecondPass[Stop].truncated)

\* normalizeMessage of the variant: string content becomes one text block,
\* role and metadata are kept
normalizeMessage(msg) ==
    [role |-> msg.role,
     content |-> [form |-> "blocks", text |-> msg.content.text],
     metadata |-> msg.metadata]

\* Array.prototype.slice(0, end)
SliceTo(s, end) ==
    LET stop == IF end < 0 THEN (IF Len(s) + end < 0 THEN 0 ELSE Len(s) + end)
                ELSE IF end > Len(s) THEN Len(s) ELSE end
    IN  SubSeq(s, 1, stop)

\* Math.floor((maxSize - 1) / 2)
TargetPairs(maxSize) == (maxSize - 1) \div 2

\* The variant of truncateConversation in unnamed/part_009.  A pair is known
\* by the index (from 0) of its user message.  The scores of the scored
\* pairs are all different, so sorting them in descending order and taking
\* the first k keeps the pairs that fewer than k others outscore.
truncateConversationVariant(messages, options) ==
    LET opts == WithDefaults(options)
        n == Len(messages)
        IsPair(i) == /\ messages[i + 1].role = "user"
                     /\ messages[i + 2].role = "assistant"
        pairs == SelectSeq([j \in 1..((n - 1) \div 2) |-> 2 * j - 1], IsPair)
        targetPairs == TargetPairs(opts.maxSize)
        remainingPairs == SliceTo(pairs, 0 - 1)
        relevance(i) ==
            IF RelevanceOf(messages[i + 1]) >= RelevanceOf(messages[i + 2])
            THEN RelevanceOf(messages[i + 1]) ELSE RelevanceOf(messages[i + 2])
        inPreservedGroup(i) ==
            \/ InPreservedGroup(messages[i + 1], opts.preserveGroups)
            \/ InPreservedGroup(messages[i + 2], opts.preserveGroups)
        score(index) ==
            (index - 1)
            + (IF relevance(remainingPairs[index]) >= opts.minRelevanceScore
               THEN 1000 ELSE 0)
            + (IF inPreservedGroup(remainingPairs[index]) THEN 500 ELSE 0)
        Outscored(index) ==
            Cardinality({other \in 1..Len(remainingPairs) : score(other) > score(index)})
        kept == Len(SliceTo(remainingPairs, targetPairs - 1))
        selectedPairs ==
            SelectSeq([index \in 1..Len(remainingPairs) |->
                          [pair |-> remainingPairs[index], rank |-> Outscored(index)]],
                      LAMBDA p : p.rank < kept)
        Pushed(chosen) ==
            [k \in 1..(2 * Len(chosen)) |->
                normalizeMessage(messages[chosen[(k + 1) \div 2] + 1 + ((k + 1) % 2)])]
        lastPair == IF pairs = << >> THEN << >> ELSE <<Last(pairs)>>
    IN  IF n = 0 THEN << >>
        ELSE IF n = 1 THEN <<normalizeMessage(messages[1])>>
        ELSE <<normalizeMessage(messages[1])>>
                 \o Pushed([j \in 1..Len(selectedPairs) |-> selectedPairs[j].pair])
                 \o Pushed(lastPair)

(***************************************************************************)
(* SpecWindow: truncateConversation and its variant applied to            *)
(* conversations of up to MaxMessages messages under every option set of  *)
(* a small range                                                           *)
(***************************************************************************)
MaxMessages == 8
MaxWindowSize == 5

\* what a pair of messages carries: nothing, a relevant user message, an
\* assistant message of the group "test", a user message of the group "code"
PairKinds == {"plain", "relevant", "test", "code"}

Message(id, role, form, metadata) ==
    [role |-> role, content |-> [form |-> form, text |-> id], metadata |-> metadata]

\* the conversation of n messages whose first message has role `firstRole`
\* and content of form `form`, the others alternating "user", "assistant"
\* from `secondRole` on, with the pair that starts at index 2j - 1 (from 0)
\* of the kind kinds[j]
Conversation(n, firstRole, secondRole, form, kinds) ==
    LET Other(role) == IF role = "user" THEN "assistant" ELSE "user"
        KindAt(i) == IF (i + 1) \div 2 \in DOMAIN kinds THEN kinds[(i + 1) \div 2]
                     ELSE "plain"
        MetadataAt(i) ==
            IF KindAt(i) = "relevant" /\ i % 2 = 1
            THEN [relevanceScore |-> 8, semanticGroup |-> "other"]
            ELSE IF KindAt(i) = "test" /\ i % 2 = 0
            THEN [relevanceScore |-> 2, semanticGroup |-> "test"]
            ELSE IF KindAt(i) = "code" /\ i % 2 = 1
            THEN [relevanceScore |-> Unset, semanticGroup |-> "code"]
            ELSE NoMetadata
    IN  [k \in 1..n |->
            IF k = 1 THEN Message(0, firstRole, form, NoMetadata)
            ELSE Message(k - 1,
                         IF k % 2 = 0 THEN secondRole ELSE Other(secondRole),
                         "blocks", MetadataAt(k - 1))]

Conversations ==
    {Conversation(n, "user", secondRole, form, kinds) :
        n \in 0..MaxMessages, secondRole \in {"user", "assistant"},
        form \in {"string", "blocks"},
        kinds \in UNION {[1..p -> PairKinds] : p \in 0..((MaxMessages - 1) \div 2)}}

WindowOptions ==
    [maxSize : {Unset} \cup 0..MaxWindowSize,
     minRelevanceScore : {Unset, 9},
     preserveGroups : {GroupsUnset, {"test"}}]

WindowFunctions == {"truncateConversation", "truncateConversationVariant"}

WindowInit ==
    /\ CoordinatorInit /\ PipelineInit /\ BasicInit
    /\ AdaptiveInitWith(DefaultAdaptiveConfig)
    /\ \E fn \in WindowFunctions, messages \in Conversations, options \in WindowOptions :
           libCall = [fn |-> fn,
                      args |-> [messages |-> messages, options |-> options],
                      returned |-> FALSE, result |-> << >>]

WindowReturns ==
    /\ libCall.fn = "truncateConversation" /\ ~libCall.returned
    /\ libCall' = [libCall EXCEPT
                      !.returned = TRUE,
                      !.result = truncateConversation(libCall.args.messages,
                                                      libCall.args.options)]
    /\ UNCHANGED <<coordinatorVars, pipelineVars, basicVars, adaptiveVars>>

VariantReturns ==
    /\ libCall.fn = "truncateConversationVariant" /\ ~libCall.returned
    /\ libCall' = [libCall EXCEPT
                      !.returned = TRUE,
                      !.result = truncateConversationVariant(libCall.args.messages,
                                                             libCall.args.options)]
    /\ UNCHANGED <<coordinatorVars, pipelineVars, basicVars, adaptiveVars>>

WindowNext == WindowReturns \/ VariantReturns

SpecWindow == WindowInit /\ [][WindowNext]_vars

\* a call of either function has returned
WindowReturned == libCall.fn \in WindowFunctions /\ libCall.returned

\* C19: for every non-empty input and every option set the first element of
\* the output is the first input message: the first input message itself
\* for truncateConversation, and for the variant, which normalises what it
\* returns, a message of the same role, text and metadata.
C19_FirstMessageKept ==
    WindowReturned /\ libCall.args.messages # << >>
    => /\ libCall.result # << >>
       /\ libCall.result[1].role = libCall.args.messages[1].role
       /\ libCall.result[1].content.text = libCall.args.messages[1].content.text
       /\ libCall.result[1].metadata = libCall.args.messages[1].metadata
       /\ libCall.fn = "truncateConversation"
          => libCall.result[1] = libCall.args.messages[1]

\* eight messages under maxSize 3: the pair kept is not the first one, and
\* the first message still leads the output
C19_Witness ==
    /\ WindowReturned /\ libCall.fn = "truncateConversation"
    /\ Len(libCall.args.messages) = 8
    /\ libCall.args.options.maxSize = 3
    /\ Len(libCall.result) = 3
    /\ libCall.result[1] = libCall.args.messages[1]
    /\ libCall.result[2] = libCall.args.messages[4]

\* C20 as stated: for all inputs and all values of maxSize, the number of
\* messages returned never exceeds maxSize.
C20_NeverExceedsMaxSize ==
    WindowReturned => Len(libCall.result) <= WithDefaults(libCall.args.options).maxSize

\* the messages of a sequence
Members(s) == {s[k] : k \in 1..Len(s)}

\* the window is wide enough for the whole input
WholeInputFits ==
    Len(libCall.args.messages) <= WithDefaults(libCall.args.options).maxSize

\* C21 as stated, for inputs the window has room for: every message of the
\* last three pairs of the input (the last six messages after the first) is
\* in the output of truncateConversation, whatever the relevance scores, and
\* the final two input messages are the final two output messages.
C21_RecencyTailKept ==
    /\ WindowReturned /\ libCall.fn = "truncateConversation"
    /\ Len(libCall.args.messages) >= 3
    /\ WholeInputFits
    => LET messages == libCall.args.messages
           result == libCall.result
           n == Len(libCall.args.messages)
       IN  /\ \A k \in 2..n : k > n - 6 => messages[k] \in Members(result)
           /\ Len(result) >= 2
           /\ result[Len(result)] = messages[n]
           /\ result[Len(result) - 1] = messages[n - 1]

\* the output ends on a user message of the input whose assistant reply,
\* the next input message, is not in the output
EndsOnUnansweredUser(messages, result) ==
    /\ result # << >>
    /\ Last(result).role = "user"
    /\ \E k \in 1..(Len(messages) - 1) :
           /\ messages[k] = Last(result)
           /\ messages[k + 1].role = "assistant"
           /\ messages[k + 1] \notin Members(result)

\* C22 as stated: for every input of more than one message the output of
\* truncateConversation has odd length (the first message and whole pairs)
\* and does not end on a user message whose assistant reply is left out.
C22_EndsOnWholePair ==
    /\ WindowReturned /\ libCall.fn = "truncateConversation"
    /\ Len(libCall.args.messages) > 1
    => /\ Len(libCall.result) % 2 = 1
       /\ ~EndsOnUnansweredUser(libCall.args.messages, libCall.result)

\* C23 as stated: an input of zero or one message, or of fewer messages
\* than maxSize, is returned unchanged by truncateConversation and by its
\* variant: the same messages in the same order.
C23_SmallInputUnchanged ==
    /\ WindowReturned
    /\ \/ Len(libCall.args.messages) <= 1
       \/ Len(libCall.args.messages) < WithDefaults(libCall.args.options).maxSize
    => libCall.result = libCall.args.messages

(***************************************************************************)
(* SpecAdaptive: profileTool and generateExecutionPlan of one engine, for *)
(* every window length up to MaxHistory                                    *)
(***************************************************************************)
MaxHistory == 2

AdaptiveConfigs ==
    [maxPatternHistory : 0..MaxHistory,
     cacheTimeout : {60000},
     resourceWeights : {[memory |-> 1, cpu |-> 1, io |-> 1, network |-> 1],
                        [memory |-> 1, cpu |-> 0, io |-> 0, network |-> 0]}]

\* what profileTool reads of a tool result and its context
ProfiledResults ==
    [success : BOOLEAN, executionTime : {0, 5000, 40000}, memoryPct : {0, 200},
     signature : {"s1"}]

AdaptiveInit ==
    /\ CoordinatorInit /\ PipelineInit /\ BasicInit /\ LibInit
    /\ \E config \in AdaptiveConfigs : AdaptiveInitWith(config)

\* results of one tool are profiled; the other tool stays without a profile
ProfileStep ==
    /\ \E result \in ProfiledResults : profileTool("read_file", result)
    /\ UNCHANGED <<coordinatorVars, pipelineVars, basicVars, libVars>>

PlanStep ==
    /\ \E t \in ToolNames : generateExecutionPlan(t, "s1")
    /\ UNCHANGED <<coordinatorVars, pipelineVars, basicVars, libVars>>

AdaptiveNext == ProfileStep \/ PlanStep

SpecAdaptive == AdaptiveInit /\ [][AdaptiveNext]_vars

\* lo <= q <= hi for a fraction q; nothing is in a range with NaN
InRange(q, lo, hi) ==
    /\ ~IsNaN(q)
    /\ lo * q[2] <= q[1]
    /\ q[1] <= hi * q[2]

\* C24 as stated: whatever profileTool calls came before, and for a tool
\* without a profile, the plan's timeout is within [5000, 60000] ms and its
\* batch size is at least 1.
C24_TimeoutAndBatchInRange ==
    plan # NoPlan
    => /\ InRange(plan.strategy.timeout, 5000, 60000)
       /\ ~IsNaN(plan.strategy.batchSize)
       /\ plan.strategy.batchSize[1] >= plan.strategy.batchSize[2]

\* a retry budget that follows the success rate for every rate
RetriesOfRate(rate) == CeilDiv(3 * (rate[2] - rate[1]), rate[2])

\* C25 as stated: the plan's maxRetries is ceil(3 * (1 - successRate)) of
\* the tool's profile for every success rate in [0, 1].
C25_RetriesFollowRate ==
    plan # NoPlan /\ plan.profile.exists /\ ~IsNaN(plan.profile.successRate)
    => plan.strategy.retryStrategy.maxRetries = RetriesOfRate(plan.profile.successRate)

(***************************************************************************)
(* utils/tokens: estimateTokens.                                          *)
(*                                                                         *)
(* A text is a sequence of characters.  The estimate of the code branch   *)
(* moves in steps of 0.5, so the operators below count in halves of a     *)
(* token and convert at the end as Math.ceil and Math.round do.           *)
(***************************************************************************)
Digits == {"0", "1", "2", "3", "4", "5", "6", "7", "8", "9"}

Letters ==
    {"a", "b", "c", "d", "e", "f", "g", "h", "i", "j", "k", "l", "m", "n", "o", "p",
     "q", "r", "s", "t", "u", "v", "w", "x", "y", "z",
     "A", "B", "C", "D", "E", "F", "G", "H", "I", "J", "K", "L", "M", "N", "O", "P",
     "Q", "R", "S", "T", "U", "V", "W", "X", "Y", "Z"}

\* \s
Whitespace == {" ", "\n", "\t", "\r"}

\* [=+\-*/<>{}()[\];]
OperatorChars == {"=", "+", "-", "*", "/", "<", ">", "{", "}", "(", ")", "[", "]", ";"}

\* the keywords of /^(const|let|var|function|if|for|while)/, in its order
CodeKeywords ==
    << <<"c", "o", "n", "s", "t">>, <<"l", "e", "t">>, <<"v", "a", "r">>,
       <<"f", "u", "n", "c", "t", "i", "o", "n">>, <<"i", "f">>, <<"f", "o", "r">>,
       <<"w", "h", "i", "l", "e">> >>

\* the maximal runs of characters inside class (inside = TRUE) or outside
\* it (inside = FALSE), left to right: text.match(/[class]+/g) || []
RECURSIVE RunsFrom(_, _, _, _, _)
RunsFrom(text, class, inside, current, found) ==
    IF text = << >>
    THEN IF current = << >> THEN found ELSE Append(found, current)
    ELSE IF (Head(text) \in class) = inside
    THEN RunsFrom(Tail(text), class, inside, Append(current, Head(text)), found)
    ELSE RunsFrom(Tail(text), class, inside, << >>,
                  IF current = << >> THEN found ELSE Append(found, current))

Runs(text, class, inside) == RunsFrom(text, class, inside, << >>, << >>)

\* text.split(/\s+/).filter(Boolean)
SplitWords(text) == Runs(text, Whitespace, FALSE)

\* /^\d+$/.test(str)
IsNumber(str) == str # << >> /\ \A k \in 1..Len(str) : str[k] \in Digits

\* /^(const|let|var|function|if|for|while)\b/.test(text)
StartsWithKeyword(text) ==
    \E k \in 1..Len(CodeKeywords) :
        /\ StartsWith(text, CodeKeywords[k])
        /\ \/ Len(text) = Len(CodeKeywords[k])
           \/ text[Len(CodeKeywords[k]) + 1] \notin (Letters \cup Digits \cup {"_"})

\* text.replace(/([=+\-*/<>{}()[\];])/g, " $1 ")
RECURSIVE PadOperators(_)
PadOperators(text) ==
    IF text = << >> THEN << >>
    ELSE (IF Head(text) \in OperatorChars
          THEN <<" ", Head(text), " ">> ELSE <<Head(text)>>)
         \o PadOperators(Tail(text))

\* what one part adds to the estimate of the code branch, in halves
PartHalves(part) ==
    IF Len(part) = 1 /\ part[1] \in OperatorChars THEN 1
    ELSE IF \E k \in 1..Len(CodeKeywords) : part = CodeKeywords[k] THEN 3
    ELSE IF IsNumber(part) THEN 2 * CeilDiv(Len(part), 4)
    ELSE 2

RECURSIVE SumPartHalves(_)
SumPartHalves(parts) ==
    IF parts = << >> THEN 0 ELSE PartHalves(Head(parts)) + SumPartHalves(Tail(parts))

\* the code branch: lines 18-52
CodeEstimate(text) ==
    LET parts == SplitWords(PadOperators(text))
        overhead == IF \/ Includes(text, CodeKeywords[4])
                       \/ Includes(text, CodeKeywords[5])
                       \/ Includes(text, CodeKeywords[6])
                    THEN 1 ELSE 0
        halves == 2 + SumPartHalves(parts) + overhead
    IN  CeilDiv(halves, 2)

\* Math.max(0, Math.floor((num.length - 2) / 3))
NumberTokens(num) == IF Len(num) < 2 THEN 0 ELSE (Len(num) - 2) \div 3

RECURSIVE SumNumberTokens(_)
SumNumberTokens(numbers) ==
    IF numbers = << >> THEN 0
    ELSE NumberTokens(Head(numbers)) + SumNumberTokens(Tail(numbers))

Max(a, b) == IF a >= b THEN a ELSE b

\* the branch of regular text: lines 54-84
TextEstimate(text) ==
    LET words == SplitWords(text)
        specialCharGroups ==
            Runs(text, Letters \cup Digits \cup Whitespace, FALSE)
        numbers == Runs(text, Digits, TRUE)
        estimate == Len(words)
                    + CeilDiv(3 * Len(specialCharGroups), 4)
                    + SumNumberTokens(numbers)
                    + (IF Len(words) > 2 THEN 1 ELSE 0)
                    + (IF Includes(text, <<"@">>) \/ Includes(text, <<".">>)
                       THEN 1 ELSE 0)
    IN  Max(IF Len(words) > 0 THEN 3 ELSE 0, estimate)

estimateTokens(text) ==
    IF text = << >> THEN 0
    ELSE IF IsNumber(text) THEN Max(1, CeilDiv(Len(text), 3))
    ELSE IF StartsWithKeyword(text) THEN CodeEstimate(text)
    ELSE TextEstimate(text)

(***************************************************************************)
(* estimateTokens applied to texts a caller supplies: [a, b] stands for   *)
(* the two calls estimateTokens(a) and estimateTokens(a + " " + b).       *)
(***************************************************************************)
MaxText == 3
MaxDigits == 10

TokenAlphabet == {"i", "f", "x", "1", " ", "=", "@"}

RECURSIVE TextsUpTo(_)
TextsUpTo(n) ==
    IF n = 0 THEN {<< >>}
    ELSE LET shorter == TextsUpTo(n - 1)
         IN  shorter \cup {Append(t, c) : t \in shorter, c \in TokenAlphabet}

\* the texts appended: every single character, and a word, a keyword, a
\* number and an address of more than one
Suffixes ==
    {<<c>> : c \in TokenAlphabet}
    \cup {<<"x", "x">>, <<"i", "f">>, <<"1", "1", "1", "1", "1">>, <<"x", "@", "x">>,
          <<"x", " ", "x", " ", "x">>, <<" ", " ">>}

\* the numbers of 1..MaxDigits digits
DigitTexts == {[k \in 1..n |-> "1"] : n \in 1..MaxDigits}

TokensInit ==
    /\ CoordinatorInit /\ PipelineInit /\ BasicInit
    /\ AdaptiveInitWith(DefaultAdaptiveConfig)
    /\ \E a \in TextsUpTo(MaxText) \cup DigitTexts, b \in Suffixes \cup {<< >>} :
           libCall = [fn |-> "estimateTokens", args |-> [a |-> a, b |-> b],
                      returned |-> FALSE, result |-> << >>]

EstimateTokensReturns ==
    /\ libCall.fn = "estimateTokens" /\ ~libCall.returned
    /\ libCall' = [libCall EXCEPT
                      !.returned = TRUE,
                      !.result = [a |-> estimateTokens(libCall.args.a),
                                  joined |-> estimateTokens(libCall.args.a \o <<" ">>
                                                                \o libCall.args.b)]]
    /\ UNCHANGED <<coordinatorVars, pipelineVars, basicVars, adaptiveVars>>

TokensNext == EstimateTokensReturns

SpecTokens == TokensInit /\ [][TokensNext]_vars

TokensReturned == libCall.fn = "estimateTokens" /\ libCall.returned

\* C29: estimateTokens returns 0 for the empty string, and for every text a
\* and every non-empty text b, estimateTokens(a + " " + b) is at least
\* estimateTokens(a).
C29_TokensMonotonic ==
    TokensReturned
    => /\ libCall.args.a = << >> => libCall.result.a = 0
       /\ libCall.args.b # << >> => libCall.result.joined >= libCall.result.a

(***************************************************************************)
(* ContextCompressionStage: the basic compression of a message.           *)
(*                                                                         *)
(* A message is a sequence of characters.  compressCodeBlocks and         *)
(* compressToolOutputs return the compressed message and write to the     *)
(* references object they are handed; the operators return both, as       *)
(* [message, references], references being the set of <<hash, type>>.     *)
(***************************************************************************)
\* the backtick, which a string of the model cannot hold, is written as an
\* apostrophe
Backtick == "'"

\* charCodeAt of the characters the messages are made of
CharCode(c) ==
    CASE c = "\n" -> 10   []  c = " " -> 32    []  c = "-" -> 45
      [] c = ":" -> 58    []  c = "R" -> 82    []  c = "[" -> 91
      [] c = "]" -> 93    []  c = Backtick -> 96    []  c = "a" -> 97
      [] c = "b" -> 98    []  c = "e" -> 101   []  c = "l" -> 108
      [] c = "s" -> 115   []  c = "t" -> 116   []  c = "u" -> 117
      [] c = "x" -> 120

Word16 == 65536

\* hashContent: `hash = (hash << 5) - hash + char; hash = hash & hash` keeps
\* 31 * hash + char within 32 bits, two's complement.  The hash is carried
\* as its two halves of 16 bits, <<high, low>>.
RECURSIVE HashFrom(_, _)
HashFrom(content, hash) ==
    IF content = << >> THEN hash
    ELSE LET low == hash[2] * 31 + CharCode(Head(content))
             high == hash[1] * 31 + (low \div Word16)
         IN  HashFrom(Tail(content), <<high % Word16, low % Word16>>)

\* the 32 bits read as a signed integer
Int32(hash) ==
    IF hash[1] >= Word16 \div 2
    THEN (hash[1] - Word16) * Word16 + hash[2]
    ELSE hash[1] * Word16 + hash[2]

Base36 ==
    <<"0", "1", "2", "3", "4", "5", "6", "7", "8", "9", "a", "b", "c", "d", "e", "f",
      "g", "h", "i", "j", "k", "l", "m", "n", "o", "p", "q", "r", "s", "t", "u", "v",
      "w", "x", "y", "z">>

RECURSIVE Digits36(_)
Digits36(n) ==
    IF n < Len(Base36) THEN <<Base36[n + 1]>>
    ELSE Append(Digits36(n \div Len(Base36)), Base36[(n % Len(Base36)) + 1])

\* Number.prototype.toString(36)
ToString36(n) == IF n < 0 THEN <<"-">> \o Digits36(0 - n) ELSE Digits36(n)

hashContent(content) == ToString36(Int32(HashFrom(content, <<0, 0>>)))

\* `[REF:${hash}]`
RefToken(hash) == <<"[", "R", "E", "F", ":">> \o hash \o <<"]">>

\* String.prototype.indexOf(pattern, from), counted from 1; 0 when absent
IndexOfFrom(str, pattern, from) ==
    LET found == {i \in from..(Len(str) - Len(pattern) + 1) :
                     SubSeq(str, i, i + Len(pattern) - 1) = pattern}
    IN  IF found = {} THEN 0 ELSE CHOOSE i \in found : \A j \in found : i <= j

\* str.replace(pattern, replacement) with a string pattern: the first
\* occurrence only
ReplaceFirst(str, pattern, replacement) ==
    LET i == IndexOfFrom(str, pattern, 1)
    IN  IF i = 0 THEN str
        ELSE SubSeq(str, 1, i - 1) \o replacement
                 \o SubSeq(str, i + Len(pattern), Len(str))

Fence == <<Backtick, Backtick, Backtick>>

\* message.match(/```(?:[\s\S]*?)```/g) || []
RECURSIVE MatchCodeBlocks(_, _)
MatchCodeBlocks(message, from) ==
    LET open == IndexOfFrom(message, Fence, from)
        close == IF open = 0 THEN 0 ELSE IndexOfFrom(message, Fence, open + Len(Fence))
    IN  IF close = 0 THEN << >>
        ELSE <<SubSeq(message, open, close + Len(Fence) - 1)>>
                 \o MatchCodeBlocks(message, close + Len(Fence))

\* [\w_-]
ToolNameChars == Letters \cup Digits \cup {"_", "-"}

ResultMark == <<" ", "R", "e", "s", "u", "l", "t", ":">>

\* the end of the match of /\[[\w_-]+ Result:[^\]]+\]/ that starts at i;
\* 0 when there is none
RECURSIVE SkipWhile(_, _, _, _)
SkipWhile(str, i, class, inside) ==
    IF i <= Len(str) /\ (str[i] \in class) = inside
    THEN SkipWhile(str, i + 1, class, inside) ELSE i

ToolOutputEnd(message, i) ==
    LET name == SkipWhile(message, i + 1, ToolNameChars, TRUE)
        body == name + Len(ResultMark)
        close == SkipWhile(message, body, {"]"}, FALSE)
    IN  IF /\ message[i] = "["
           /\ name > i + 1
           /\ SubSeq(message, name, body - 1) = ResultMark
           /\ close > body
           /\ close <= Len(message)
        THEN close ELSE 0

\* message.match(/\[[\w_-]+ Result:[^\]]+\]/g) || []
RECURSIVE MatchToolOutputs(_, _)
MatchToolOutputs(message, from) ==
    IF from > Len(message) THEN << >>
    ELSE LET end == ToolOutputEnd(message, from)
         IN  IF end = 0 THEN MatchToolOutputs(message, from + 1)
             ELSE <<SubSeq(message, from, end)>> \o MatchToolOutputs(message, end + 1)

\* the forEach of compressCodeBlocks and compressToolOutputs: a block whose
\* hash was seen before is replaced where message.replace finds it
RECURSIVE CompressBlocks(_, _, _, _, _)
CompressBlocks(blocks, type, compressedMessage, processed, references) ==
    IF blocks = << >>
    THEN [message |-> compressedMessage, references |-> references]
    ELSE LET block == Head(blocks)
             hash == hashContent(block)
         IN  IF hash \in processed
             THEN CompressBlocks(Tail(blocks), type,
                                 ReplaceFirst(compressedMessage, block, RefToken(hash)),
                                 processed, references \cup {<<hash, type>>})
             ELSE CompressBlocks(Tail(blocks), type, compressedMessage,
                                 processed \cup {hash}, references)

compressCodeBlocks(message, references) ==
    CompressBlocks(MatchCodeBlocks(message, 1), "code", message, {}, references)

compressToolOutputs(message, references) ==
    CompressBlocks(MatchToolOutputs(message, 1), "tool", message, {}, references)

(***************************************************************************)
(* The two functions applied to messages a caller supplies.  A message is *)
(* put together from pieces: lines of text, two fenced code blocks and    *)
(* two tool outputs.                                                       *)
(***************************************************************************)
MaxPieces == 4

CodeBlockA == Fence \o <<"a">> \o Fence
CodeBlockB == Fence \o <<"b">> \o Fence
ToolOutputA == <<"[", "t">> \o ResultMark \o <<"a", "]">>
ToolOutputB == <<"[", "t">> \o ResultMark \o <<"b", "]">>
TextLine == <<"x", "\n">>

Pieces == {CodeBlockA, CodeBlockB, ToolOutputA, ToolOutputB, TextLine}

PieceLists == UNION {[1..n -> Pieces] : n \in 0..MaxPieces}

RECURSIVE Flatten(_)
Flatten(pieces) ==
    IF pieces = << >> THEN << >> ELSE Head(pieces) \o Flatten(Tail(pieces))

CompressionFunctions == {"compressCodeBlocks", "compressToolOutputs"}

CompressionInit ==
    /\ CoordinatorInit /\ PipelineInit /\ BasicInit
    /\ AdaptiveInitWith(DefaultAdaptiveConfig)
    /\ \E fn \in CompressionFunctions, pieces \in PieceLists :
           libCall = [fn |-> fn,
                      args |-> [pieces |-> pieces, message |-> Flatten(pieces)],
                      returned |-> FALSE, result |-> << >>]

CodeBlocksReturns ==
    /\ libCall.fn = "compressCodeBlocks" /\ ~libCall.returned
    /\ libCall' = [libCall EXCEPT
                      !.returned = TRUE,
                      !.result = compressCodeBlocks(libCall.args.message, {})]
    /\ UNCHANGED <<coordinatorVars, pipelineVars, basicVars, adaptiveVars>>

ToolOutputsReturns ==
    /\ libCall.fn = "compressToolOutputs" /\ ~libCall.returned
    /\ libCall' = [libCall EXCEPT
                      !.returned = TRUE,
                      !.result = compressToolOutputs(libCall.args.message, {})]
    /\ UNCHANGED <<coordinatorVars, pipelineVars, basicVars, adaptiveVars>>

CompressionNext == CodeBlocksReturns \/ ToolOutputsReturns

SpecCompression == CompressionInit /\ [][CompressionNext]_vars

CompressionReturned == libCall.fn \in CompressionFunctions /\ libCall.returned

\* the blocks a function looks for
BlocksOf(fn) ==
    IF fn = "compressCodeBlocks" THEN {CodeBlockA, CodeBlockB}
    ELSE {ToolOutputA, ToolOutputB}

\* the pieces of a message in which the first occurrence of every block of
\* the set stays and every later occurrence is the reference token
FirstKept(pieces, blocks) ==
    [k \in 1..Len(pieces) |->
        IF pieces[k] \in blocks /\ \E j \in 1..(k - 1) : pieces[j] = pieces[k]
        THEN RefToken(hashContent(pieces[k])) ELSE pieces[k]]

\* C28: when an identical code block (or tool output) occurs k >= 2 times in
\* a message, basic compression leaves its first occurrence verbatim where
\* it was and replaces exactly the k-1 later occurrences by [REF:<hash>].
C28_FirstOccurrenceKept ==
    CompressionReturned
    => libCall.result.message
           = Flatten(FirstKept(libCall.args.pieces, BlocksOf(libCall.fn)))

(***************************************************************************)
(* The stages' process functions, each applied to one context.            *)
(*                                                                         *)
(* A stage call is a libCall whose args hold the context object handed to *)
(* process.  Its result is [status, context, received]: status is "ok"    *)
(* when the promise resolved and "throws" when it rejected, context is    *)
(* the object it resolved with, received is the object that was handed    *)
(* in, as it reads once the promise has settled.                          *)
(*                                                                         *)
(* A stage context has, besides the fields of MessageContexts,            *)
(*   environmentMode  context.environment.mode ("" when missing); a       *)
(*                    missing environment reads as workingDirectory << >> *)
(*                    and environmentMode ""                               *)
(*   toolExecution    may carry errorHandling [ignoreErrors, fallbackValue]*)
(*   messageHistory   context.metadata.messageHistory                      *)
(*   semanticGroups   context.metadata.semanticGroups                      *)
(*   testDebug        context.testDebug                                    *)
(*   environmentTokens, instructionTokens                                  *)
(*                    the token estimates of JSON.stringify(environment)   *)
(*                    and of customInstructions (0 when there are none);   *)
(*                    the two strings themselves are not carried          *)
(* The texts are made of letters, digits, blanks and a few signs, so of   *)
(* what sanitizeMessage does only trimming and the folding of blanks show. *)
(***************************************************************************)
RECURSIVE TrimStart(_)
TrimStart(str) ==
    IF str # << >> /\ Head(str) \in Whitespace THEN TrimStart(Tail(str)) ELSE str

RECURSIVE TrimEnd(_)
TrimEnd(str) ==
    IF str # << >> /\ Last(str) \in Whitespace
    THEN TrimEnd(SubSeq(str, 1, Len(str) - 1)) ELSE str

\* String.prototype.trim
Trim(str) == TrimEnd(TrimStart(str))

\* `.replace(/[class]+/g, " ")`
RECURSIVE FoldRuns(_, _)
FoldRuns(str, class) ==
    IF str = << >> THEN << >>
    ELSE IF Head(str) \notin class THEN <<Head(str)>> \o FoldRuns(Tail(str), class)
    ELSE IF Len(str) > 1 /\ str[2] \in class THEN FoldRuns(Tail(str), class)
    ELSE <<" ">> \o FoldRuns(Tail(str), class)

\* the message string is empty once trimmed
BlankMessage(message) == Trim(message.text) = << >> /\ message.directive = NoDirective

\* message.trim(): the blanks before a directive that follows the text stay
TrimMessage(message) ==
    [message EXCEPT !.text = IF message.directive = NoDirective
                             THEN Trim(@) ELSE TrimStart(@)]

\* the warnings of validateContext, by code (the params of the model stay
\* below the size that draws large_params)
validationWarnings(context) ==
    IF /\ context.requiresToolExecution
       /\ context.toolExecution # NoToolExecution
       /\ "errorHandling" \in DOMAIN context.toolExecution
       /\ context.toolExecution.errorHandling.ignoreErrors
       /\ context.toolExecution.errorHandling.fallbackValue = Undefined
    THEN {"missing_fallback"} ELSE {}

\* EnhancedValidationStage.process: the warnings are written to the context
\* that was handed in, and that context is returned
EnhancedValidationProcess(context) ==
    LET warned == [context EXCEPT
                      !.metadata = SpreadMetadata(@, {<<"validationWarnings",
                                                       "missing_fallback">>})]
    IN  IF validateContext(context) # {}
        THEN [status |-> "throws", context |-> context, received |-> context]
        ELSE IF validationWarnings(context) # {}
        THEN [status |-> "ok", context |-> warned, received |-> warned]
        ELSE [status |-> "ok", context |-> context, received |-> context]

\* ValidationStage.process
ValidationStageProcess(context) ==
    IF \/ BlankMessage(context.message)
       \/ context.mode = ""
       \/ context.workingDirectory = << >>
    THEN [status |-> "throws", context |-> context, received |-> context]
    ELSE [status |-> "ok",
          context |-> [context EXCEPT !.message = TrimMessage(@)],
          received |-> context]

validModes == {"code", "chat", "doc"}

maxLength == 10000

\* the process of the validation stage that checks message, mode and
\* environment side by side (validateMessage, validateMode,
\* validateEnvironment) and records their verdicts
ValidationVariantProcess(context) ==
    IF \/ BlankMessage(context.message)
       \/ Len(context.message.text) > maxLength
       \/ context.mode = ""
       \/ context.mode \notin validModes
       \/ context.workingDirectory = << >>
       \/ context.environmentMode = ""
    THEN [status |-> "throws", context |-> context, received |-> context]
    ELSE [status |-> "ok",
          context |-> [context EXCEPT
                          !.message = [TrimMessage(@) EXCEPT !.text = FoldRuns(@, Whitespace)],
                          !.metadata = SpreadMetadata(@, {<<"validations", "true">>})],
          received |-> context]

(***************************************************************************)
(* TestDebugStage.                                                         *)
(*                                                                         *)
(* context.testDebug is [fixAttempts, previousErrors,                      *)
(* suggestedTestRevisions]; an entry of previousErrors is [error, fix].   *)
(* The error texts of the model are single words of one letter, for which *)
(* calculateSimilarity gives 1 when the two texts are the same            *)
(* (0.7 * 2/2 + 0.3 * (1 - 0/1)) and 0 when they differ                    *)
(* (0.7 * 0/2 + 0.3 * (1 - 1/1)), and for which the common pattern of a   *)
(* group is the text of its errors.  Timestamps are left out.             *)
(***************************************************************************)
HIGH_LEVEL_ANALYSIS_THRESHOLD == 3
TEST_REVISION_THRESHOLD == 5

\* 0.4, in tenths
SIMILARITY_THRESHOLD == 4

\* context.testDebug when there is none
NoTestDebug ==
    [fixAttempts |-> Unset, previousErrors |-> << >>, suggestedTestRevisions |-> << >>]

\* in tenths
calculateSimilarity(str1, str2) == IF str1 = str2 THEN 10 ELSE 0

RECURSIVE SimilaritySum(_, _)
SimilaritySum(errors, error) ==
    IF errors = << >> THEN 0
    ELSE calculateSimilarity(Head(errors).error, error.error)
             + SimilaritySum(Tail(errors), error)

\* the loop over the groups: the index of the group whose average
\* similarity is the first highest one at or above the threshold, 0 if none;
\* highest is <<sum, count>>
RECURSIVE BestMatch(_, _, _, _, _)
BestMatch(groups, k, error, highest, best) ==
    IF k > Len(groups) THEN best
    ELSE LET sum == SimilaritySum(groups[k], error)
             count == Len(groups[k])
         IN  IF /\ sum * highest[2] > highest[1] * count
                /\ sum >= SIMILARITY_THRESHOLD * count
             THEN BestMatch(groups, k + 1, error, <<sum, count>>, k)
             ELSE BestMatch(groups, k + 1, error, highest, best)

\* the reduce of analyzeTestErrorPatterns
RECURSIVE GroupErrors(_, _)
GroupErrors(errors, groups) ==
    IF errors = << >> THEN groups
    ELSE LET best == BestMatch(groups, 1, Head(errors), <<0, 1>>, 0)
         IN  GroupErrors(Tail(errors),
                         IF best = 0 THEN Append(groups, <<Head(errors)>>)
                         ELSE [groups EXCEPT ![best] = Append(@, Head(errors))])

\* the common pattern of a group of errors with one and the same text
extractCommonPattern(errors) == IF errors = << >> THEN << >> ELSE errors[1].error

analyzeTestErrorPatterns(previousErrors) ==
    LET groups == GroupErrors(previousErrors, << >>)
    IN  [k \in 1..Len(groups) |->
            [pattern |-> extractCommonPattern(groups[k]),
             frequency |-> Len(groups[k]),
             fixes |-> [j \in 1..Len(groups[k]) |-> groups[k][j].fix]]]

\* patterns.reduce((prev, current) => current.frequency > prev.frequency ?
\* current : prev), for a list that is not empty
RECURSIVE MostFrequent(_, _)
MostFrequent(patterns, prev) ==
    IF patterns = << >> THEN prev
    ELSE MostFrequent(Tail(patterns),
                      IF Head(patterns).frequency > prev.frequency
                      THEN Head(patterns) ELSE prev)

\* determineRecommendedApproach; reduce throws on an empty list
determineRecommendedApproach(patterns) ==
    IF patterns = << >> THEN "throws"
    ELSE IF MostFrequent(Tail(patterns), Head(patterns)).frequency >= 3
    THEN "address the common pattern"
    ELSE "no clear pattern"

\* performHighLevelAnalysis: [threw, context]
performHighLevelAnalysis(context) ==
    LET errorPatterns == analyzeTestErrorPatterns(context.testDebug.previousErrors)
        approach == determineRecommendedApproach(errorPatterns)
    IN  IF approach = "throws" THEN [threw |-> TRUE, context |-> context]
        ELSE [threw |-> FALSE,
              context |-> [context EXCEPT
                              !.metadata = SpreadMetadata(@,
                                  {<<"testDebugAnalysis", approach>>})]]

\* new Set(previousErrors.map((e) => e.fix)).size >= 3
analyzeTestRevisionNeed(previousErrors) ==
    Cardinality({previousErrors[k].fix : k \in 1..Len(previousErrors)}) >= 3

\* suggestTestRevisions; the contexts have no metadata.currentTest
suggestTestRevisions(context) ==
    IF ~analyzeTestRevisionNeed(context.testDebug.previousErrors) THEN context
    ELSE [context EXCEPT
             !.testDebug.suggestedTestRevisions =
                 <<[testPath |-> "unknown",
                    reason |-> MostFrequent(
                        Tail(analyzeTestErrorPatterns(context.testDebug.previousErrors)),
                        Head(analyzeTestErrorPatterns(context.testDebug.previousErrors))
                    ).pattern]>>,
             !.metadata = SpreadMetadata(@, {<<"testRevisionWarning", "review">>})]

\* TestDebugStage.process: every write goes to the context handed in
TestDebugProcess(context) ==
    IF context.testDebug = NoTestDebug
    THEN LET initialized ==
                 [context EXCEPT
                     !.testDebug = [fixAttempts |-> 0, previousErrors |-> << >>,
                                    suggestedTestRevisions |-> << >>]]
         IN  [status |-> "ok", context |-> initialized, received |-> initialized]
    ELSE LET counted == [context EXCEPT !.testDebug.fixAttempts = @ + 1]
             analysis ==
                 IF counted.testDebug.fixAttempts >= HIGH_LEVEL_ANALYSIS_THRESHOLD
                 THEN performHighLevelAnalysis(counted)
                 ELSE [threw |-> FALSE, context |-> counted]
             revised ==
                 IF counted.testDebug.fixAttempts >= TEST_REVISION_THRESHOLD
                 THEN suggestTestRevisions(analysis.context)
                 ELSE analysis.context
         IN  IF analysis.threw
             THEN [status |-> "throws", context |-> counted, received |-> counted]
             ELSE [status |-> "ok", context |-> revised, received |-> revised]

(***************************************************************************)
(* SemanticChunkingStage.                                                  *)
(*                                                                         *)
(* A message of the history is [role, content, metadata], content being a *)
(* string in lower case; the metadata that process attaches is            *)
(* [relevanceScore, keywords, semanticGroup], relevanceScore a fraction   *)
(* <<numerator, denominator>>.  Timestamps are left out.                  *)
(***************************************************************************)
\* the metadata of a message that has none
NoChunk == [relevanceScore |-> <<0, 1>>, keywords |-> << >>, semanticGroup |-> Undefined]

\* context.metadata.messageHistory when there is none
NoHistory == <<[role |-> Undefined, content |-> << >>, metadata |-> NoChunk]>>

stopWords ==
    {<<"t", "h", "e">>, <<"a">>, <<"a", "n">>, <<"a", "n", "d">>,
     <<"o", "r">>, <<"b", "u", "t">>, <<"i", "n">>, <<"o", "n">>,
     <<"a", "t">>, <<"t", "o">>, <<"f", "o", "r">>}

codeKeywords ==
    {<<"f", "u", "n", "c", "t", "i", "o", "n">>, <<"c", "l", "a", "s", "s">>,
     <<"m", "e", "t", "h", "o", "d">>,
     <<"v", "a", "r", "i", "a", "b", "l", "e">>,
     <<"i", "m", "p", "o", "r", "t">>, <<"e", "x", "p", "o", "r", "t">>}

configKeywords ==
    {<<"c", "o", "n", "f", "i", "g">>, <<"s", "e", "t", "t", "i", "n", "g">>,
     <<"e", "n", "v", "i", "r", "o", "n", "m", "e", "n", "t">>,
     <<"p", "a", "r", "a", "m", "e", "t", "e", "r">>}

testKeywords ==
    {<<"t", "e", "s", "t">>, <<"s", "p", "e", "c">>,
     <<"a", "s", "s", "e", "r", "t">>, <<"e", "x", "p", "e", "c", "t">>,
     <<"m", "o", "c", "k">>}

\* new Set(text.split(/\s+/)): the split keeps an empty string where the text
\* is empty or begins or ends with whitespace
SplitSet(text) ==
    LET words == SplitWords(text)
    IN  {words[k] : k \in 1..Len(words)}
        \cup (IF text = << >> \/ Head(text) \in Whitespace \/ Last(text) \in Whitespace
              THEN {<< >>} ELSE {})

calculateRelevanceScore(chunk, currentContext) ==
    LET chunkWords == SplitSet(chunk)
        contextWords == SplitSet(currentContext)
    IN  <<Cardinality(chunkWords \cap contextWords),
          Max(Cardinality(chunkWords), Cardinality(contextWords))>>

extractKeywords(text) ==
    LET kept == SelectSeq(SplitWords(text),
                          LAMBDA word : word \notin stopWords /\ Len(word) > 3)
    IN  SubSeq(kept, 1, IF Len(kept) < 10 THEN Len(kept) ELSE 10)

\* keywords.filter((k) => set.has(k)).length
CountIn(keywords, set) == Len(SelectSeq(keywords, LAMBDA k : k \in set))

\* the reduce over [code, config, test] keeps the later entry on a tie
determineSemanticGroup(keywords) ==
    LET code == CountIn(keywords, codeKeywords)
        config == CountIn(keywords, configKeywords)
        test == CountIn(keywords, testKeywords)
        first == IF code > config THEN <<"code", code>> ELSE <<"config", config>>
    IN  IF first[2] > test THEN first[1] ELSE "test"

\* the stable sort of the middle messages, highest relevanceScore first
RECURSIVE SortByRelevance(_)
SortByRelevance(messages) ==
    IF messages = << >> THEN << >>
    ELSE LET sorted == SortByRelevance(SubSeq(messages, 1, Len(messages) - 1))
             msg == Last(messages)
             Ahead(m) == m.metadata.relevanceScore[1] * msg.metadata.relevanceScore[2]
                             >= msg.metadata.relevanceScore[1] * m.metadata.relevanceScore[2]
             before == Len(SelectSeq(sorted, Ahead))
         IN  SelectSeq(sorted, Ahead) \o <<msg>>
                 \o SubSeq(sorted, before + 1, Len(sorted))

\* slice(0, 1), slice(1, -3) sorted, slice(-3)
prioritizeMessages(messages) ==
    LET n == Len(messages)
        initial == SubSeq(messages, 1, IF n < 1 THEN n ELSE 1)
        recent == SubSeq(messages, (IF n < 3 THEN 0 ELSE n - 3) + 1, n)
        middle == IF n - 3 > 1 THEN SubSeq(messages, 2, n - 3) ELSE << >>
    IN  initial \o SortByRelevance(middle) \o recent

\* the number of messages of each group, as <<group, count>>
getSemanticGroupSummary(messages) ==
    {<<group, Len(SelectSeq(messages, LAMBDA m : m.metadata.semanticGroup = group))>> :
        group \in {messages[k].metadata.semanticGroup : k \in 1..Len(messages)}}

\* SemanticChunkingStage.process: messageHistory and semanticGroups are
\* written to the metadata of the context handed in
SemanticChunkingProcess(context) ==
    IF context.messageHistory = NoHistory
    THEN [status |-> "ok", context |-> context, received |-> context]
    ELSE LET messages == context.messageHistory
             processedMessages ==
                 [k \in 1..Len(messages) |->
                     [messages[k] EXCEPT
                         !.metadata =
                             [relevanceScore |->
                                  calculateRelevanceScore(messages[k].content,
                                                          context.message.text),
                              keywords |-> extractKeywords(messages[k].content),
                              semanticGroup |->
                                  determineSemanticGroup(
                                      extractKeywords(messages[k].content))]]]
             sortedMessages == prioritizeMessages(processedMessages)
             updated == [context EXCEPT
                            !.messageHistory = sortedMessages,
                            !.semanticGroups = getSemanticGroupSummary(sortedMessages)]
         IN  [status |-> "ok", context |-> updated, received |-> updated]

(***************************************************************************)
(* ContextCompressionStage.process.                                        *)
(*                                                                         *)
(* The lists of the environment (visibleFiles, openTabs, activeTerminals) *)
(* are empty in the contexts of the model, so compressEnvironment and the *)
(* aggressive compression leave the environment, and its estimate, as     *)
(* they are.  No message of the model has a run of three lines of more    *)
(* than 50 characters, which is what compressRepeatedPatterns replaces,   *)
(* nor a line of more than 200 characters.                                 *)
(***************************************************************************)
MODEL_TOKEN_LIMIT == 200000

\* 0.6, in tenths
COMPRESSION_THRESHOLD == 6

HARD_LIMIT == 190000

maxInstructionsTokens == 2500

estimateContextTokens(context) ==
    estimateTokens(context.message.text) + context.environmentTokens
        + context.instructionTokens

\* compressContext: the copy, with the compressed message and the
\* compression entry of the metadata
compressContext(context, currentTokens) ==
    LET code == compressCodeBlocks(context.message.text, {})
        tool == compressToolOutputs(code.message, code.references)
        compressedContext == [context EXCEPT !.message.text = tool.message]
    IN  [compressedContext EXCEPT
            !.metadata = SpreadMetadata(@,
                {<<"compression",
                   [references |-> tool.references,
                    originalTokenCount |-> currentTokens,
                    compressedTokenCount |-> estimateContextTokens(compressedContext)]>>})]

\* applyAggressiveCompression: the copy, its message with blanks and tabs
\* folded and trimmed, its customInstructions cut to maxInstructionsTokens
applyAggressiveCompression(context) ==
    [context EXCEPT
        !.message.text = Trim(FoldRuns(@, {" ", "\t"})),
        !.instructionTokens = IF @ > maxInstructionsTokens
                              THEN maxInstructionsTokens ELSE @]

ContextCompressionProcess(context) ==
    LET currentTokens == estimateContextTokens(context)
        basic == IF currentTokens * 10 > MODEL_TOKEN_LIMIT * COMPRESSION_THRESHOLD
                 THEN compressContext(context, currentTokens)
                 ELSE context
        compressedContext == IF estimateContextTokens(basic) > HARD_LIMIT
                             THEN applyAggressiveCompression(basic)
                             ELSE basic
    IN  IF estimateContextTokens(compressedContext) > MODEL_TOKEN_LIMIT
        THEN [status |-> "throws", context |-> context, received |-> context]
        ELSE [status |-> "ok", context |-> compressedContext, received |-> context]

(***************************************************************************)
(* The contexts the stages are applied to.                                 *)
(***************************************************************************)
MaxChunks == 6
MaxErrors == 3
MaxFixAttempts == 5

WithErrorHandling(ignoreErrors, fallbackValue) ==
    [toolName |-> "read_file", params |-> "p1",
     errorHandling |-> [ignoreErrors |-> ignoreErrors, fallbackValue |-> fallbackValue]]

\* the contexts handed to the validation stages
ValidationContexts ==
    [message : [text : {<< >>, <<" ">>, <<"g", "o">>, <<" ", "g", " ", " ", "o">>},
                directive : {NoDirective}],
     mode : {"", "code", "plan"},
     workingDirectory : {<< >>, <<"w">>},
     environmentMode : {"", "code"},
     requiresToolExecution : BOOLEAN,
     toolExecution : {NoToolExecution,
                      WithErrorHandling(TRUE, Undefined),
                      WithErrorHandling(TRUE, "fallback")},
     metadata : {{}},
     messageHistory : {NoHistory},
     semanticGroups : {{}},
     testDebug : {NoTestDebug},
     environmentTokens : {20},
     instructionTokens : {0}]

\* a context that every validation stage accepts
PlainContext ==
    [message |-> [text |-> <<"g", "o">>, directive |-> NoDirective],
     mode |-> "code",
     workingDirectory |-> <<"w">>,
     environmentMode |-> "code",
     requiresToolExecution |-> FALSE,
     toolExecution |-> NoToolExecution,
     metadata |-> {},
     messageHistory |-> NoHistory,
     semanticGroups |-> {},
     testDebug |-> NoTestDebug,
     environmentTokens |-> 20,
     instructionTokens |-> 0]

ChunkContents ==
    {<<"t", "e", "s", "t">>,
     <<"c", "l", "a", "s", "s", " ", "g", "o">>,
     <<"g", "o">>}

Histories ==
    UNION {[1..n -> [role : {"user"}, content : ChunkContents, metadata : {NoChunk}]] :
              n \in 0..MaxChunks}

\* the contexts handed to the semantic-chunking stage
ChunkingContexts ==
    {[PlainContext EXCEPT !.message.text = text, !.messageHistory = history] :
        text \in {<<"g", "o">>, <<"t", "e", "s", "t">>},
        history \in Histories \cup {NoHistory}}

TestErrors == [error : {<<"a">>, <<"b">>}, fix : {"f1", "f2", "f3"}]

ErrorLists == UNION {[1..n -> TestErrors] : n \in 0..MaxErrors}

\* the contexts handed to the test-debug stage
TestDebugContexts ==
    {[PlainContext EXCEPT !.testDebug = testDebug] :
        testDebug \in {NoTestDebug}
                      \cup [fixAttempts : 0..MaxFixAttempts,
                            previousErrors : ErrorLists,
                            suggestedTestRevisions : {<< >>}]}

\* the contexts handed to the tool-parser stage
ToolParserContexts ==
    {[PlainContext EXCEPT !.message = message] :
        message \in [text : {<< >>, <<"g", "o">>},
                     directive : {NoDirective} \cup [toolName : ToolNames,
                                                     params : ParamNames]]}

\* the contexts handed to the compression stage: customInstructions of no
\* tokens, of more than the compression threshold and of more than the hard
\* limit
CompressionContexts ==
    {[PlainContext EXCEPT !.message.text = Flatten(pieces) \o blanks,
                          !.instructionTokens = tokens] :
        pieces \in PieceLists, blanks \in {<< >>, <<" ", " ", "x">>},
        tokens \in {0, 150000, 195000}}

StageFunctions ==
    {"EnhancedValidationStage.process", "ValidationStage.process",
     "ValidationVariant.process", "SemanticChunkingStage.process",
     "TestDebugStage.process", "ToolParserStage.process",
     "ContextCompressionStage.process"}

ValidationFunctions ==
    {"EnhancedValidationStage.process", "ValidationStage.process",
     "ValidationVariant.process"}

\* the contexts a stage is applied to
ContextsOf(fn) ==
    IF fn \in ValidationFunctions THEN ValidationContexts
    ELSE IF fn = "SemanticChunkingStage.process" THEN ChunkingContexts
    ELSE IF fn = "TestDebugStage.process" THEN TestDebugContexts
    ELSE IF fn = "ToolParserStage.process" THEN ToolParserContexts
    ELSE CompressionContexts

StagesInit ==
    /\ CoordinatorInit /\ PipelineInit /\ BasicInit
    /\ AdaptiveInitWith(DefaultAdaptiveConfig)
    /\ \E fn \in StageFunctions :
           \E context \in ContextsOf(fn) :
               libCall = [fn |-> fn, args |-> [context |-> context],
                          returned |-> FALSE, result |-> << >>]

EnhancedValidationReturns ==
    /\ libCall.fn = "EnhancedValidationStage.process" /\ ~libCall.returned
    /\ libCall' = [libCall EXCEPT
                      !.returned = TRUE,
                      !.result = EnhancedValidationProcess(libCall.args.context)]
    /\ UNCHANGED <<coordinatorVars, pipelineVars, basicVars, adaptiveVars>>

ValidationStageReturns ==
    /\ libCall.fn = "ValidationStage.process" /\ ~libCall.returned
    /\ libCall' = [libCall EXCEPT
                      !.returned = TRUE,
                      !.result = ValidationStageProcess(libCall.args.context)]
    /\ UNCHANGED <<coordinatorVars, pipelineVars, basicVars, adaptiveVars>>

ValidationVariantReturns ==
    /\ libCall.fn = "ValidationVariant.process" /\ ~libCall.returned
    /\ libCall' = [libCall EXCEPT
                      !.returned = TRUE,
                      !.result = ValidationVariantProcess(libCall.args.context)]
    /\ UNCHANGED <<coordinatorVars, pipelineVars, basicVars, adaptiveVars>>

SemanticChunkingReturns ==
    /\ libCall.fn = "SemanticChunkingStage.process" /\ ~libCall.returned
    /\ libCall' = [libCall EXCEPT
                      !.returned = TRUE,
                      !.result = SemanticChunkingProcess(libCall.args.context)]
    /\ UNCHANGED <<coordinatorVars, pipelineVars, basicVars, adaptiveVars>>

TestDebugReturns ==
    /\ libCall.fn = "TestDebugStage.process" /\ ~libCall.returned
    /\ libCall' = [libCall EXCEPT
                      !.returned = TRUE,
                      !.result = TestDebugProcess(libCall.args.context)]
    /\ UNCHANGED <<coordinatorVars, pipelineVars, basicVars, adaptiveVars>>

ToolParserReturns ==
    /\ libCall.fn = "ToolParserStage.process" /\ ~libCall.returned
    /\ libCall' = [libCall EXCEPT
                      !.returned = TRUE,
                      !.result = [status |-> "ok",
                                  context |-> ToolParserProcess(libCall.args.context),
                                  received |-> libCall.args.context]]
    /\ UNCHANGED <<coordinatorVars, pipelineVars, basicVars, adaptiveVars>>

ContextCompressionReturns ==
    /\ libCall.fn = "ContextCompressionStage.process" /\ ~libCall.returned
    /\ libCall' = [libCall EXCEPT
                      !.returned = TRUE,
                      !.result = ContextCompressionProcess(libCall.args.context)]
    /\ UNCHANGED <<coordinatorVars, pipelineVars, basicVars, adaptiveVars>>

StagesNext ==
    \/ EnhancedValidationReturns
    \/ ValidationStageReturns
    \/ ValidationVariantReturns
    \/ SemanticChunkingReturns
    \/ TestDebugReturns
    \/ ToolParserReturns
    \/ ContextCompressionReturns

SpecStages == StagesInit /\ [][StagesNext]_vars

StageReturned == libCall.fn \in StageFunctions /\ libCall.returned

\* one of the three checks the validation stage is to make fails
FailsACheck(context) ==
    \/ BlankMessage(context.message)
    \/ context.mode \notin validModes
    \/ context.workingDirectory = << >>

\* C26: the validation stage rejects every context whose message is empty
\* once trimmed, whose mode is missing or outside the allowed set, or whose
\* environment or working directory is missing, and accepts every context
\* that passes these three checks.
C26_ValidationRejects ==
    StageReturned /\ libCall.fn \in ValidationFunctions
    => (libCall.result.status = "throws" <=> FailsACheck(libCall.args.context))

\* C27: no stage changes the context it is handed: once process has
\* settled, the context and its metadata read as they did before the call,
\* for the validation, semantic-chunking, test-debug, tool-parser and
\* compression stages.
C27_ReceivedContextUnchanged ==
    StageReturned => libCall.result.received = libCall.args.context

(***************************************************************************)
(* SpecCeiling: a long series of calls of one tool, always with the same   *)
(* parameters, whose executions resolve or time out, by a caller that      *)
(* waits out every cooldown and can stay away for a loop window            *)
(***************************************************************************)
CeilingCallFinishes ==
    /\ \E e \in ToolRuns({"ok", "timeout"}, {<<"o", "k">>}, {{}}, {0},
                         {CoolSample}) :
          FinishProcess(e)
    /\ UNCHANGED <<basicVars, sideVars>>

CeilingNext ==
    \/ LoopRegisterStep
    \/ FatalCallStarts
    \/ ToolStageEvent
    \/ CeilingCallFinishes
    \/ FatalWaitOutCooldown
    \/ FatalWaitOutWindow

SpecCeiling == Init /\ [][CeilingNext]_vars

\* the execution of the call threw or timed out
FailedExecution(entry) == entry.outcome \in {"threw", "timeout"}

\* the n calls of the log before its last one are failed executions of the
\* tool of the last one
FailedRunBefore(log, n) ==
    /\ Len(log) > n
    /\ \A k \in (Len(log) - n)..(Len(log) - 1) :
          FailedExecution(log[k]) /\ log[k].tool = Last(log).tool

\* C30: in a sequence of calls to one tool, at most ERROR_THRESHOLD
\* consecutive failed executions with no success between them get the retry
\* treatment; every further consecutive failure is not retried and leaves
\* the tool with the non-retry cooldown, twice the tool's timeout.
C30_RetryCeiling ==
    [][/\ Len(callLog') > Len(callLog)
       /\ FailedExecution(Last(callLog'))
       /\ FailedRunBefore(callLog', ERROR_THRESHOLD)
       => /\ ~Last(callLog').shouldRetry
          /\ toolTimeouts'[Last(callLog').tool] = 2 * ToolTimeout(Last(callLog').tool)]_vars

(***************************************************************************)
(* The cooldown a failed call leaves (SpecTool)                            *)
(***************************************************************************)
\* the failures of a call that passed the cooldown gate: invalid
\* parameters, the loop refusal, the timeout, an exception of the tool or
\* of a hook
FailedPastGate ==
    {"invalid", "disabled", "loop", "timeout", "threw", "before_hook", "after_hook"}

\* the cooldown of tool t, in the state after the call, as the call's retry
\* decision wants it
CooldownScheduled(t, shouldRetry) ==
    /\ lastToolExecution'[t] = now'
    /\ IF shouldRetry
       THEN toolTimeouts'[t] >= MIN_RETRY_DELAY /\ toolTimeouts'[t] <= MAX_RETRY_DELAY
       ELSE toolTimeouts'[t] = 2 * ToolTimeout(t)
    /\ toolTimeouts'[t] >= MIN_RETRY_DELAY

\* C31: after every failed tool call that passed the cooldown gate, the
\* tool is under a cooldown that starts at the failure time and lasts the
\* backoff delay, within [1000, 10000] ms, when retry was chosen, and twice
\* the tool's timeout otherwise, so that a call less than 1000 ms after the
\* failure is refused by the gate.
C31_FailureLeavesCooldown ==
    [][/\ Len(callLog') > Len(callLog)
       /\ Last(callLog').outcome \in FailedPastGate
       => CooldownScheduled(Last(callLog').tool, Last(callLog').shouldRetry)]_vars

\* C35: after a tool call has completed successfully the tool is not under
\* cooldown, whatever failures of the tool came before: a call that follows
\* at once is not refused by the cooldown gate.
C35_SuccessClearsCooldown ==
    /\ callLog # << >>
    /\ Last(callLog).outcome = "ok"
    => ~InCooldown(Last(callLog).tool, now)

\* C40: a result with success false that execute returns is handled as a
\* failure: it is counted as a failure in the performance statistics,
\* appended to the error history, reported through onError when that hook
\* is installed and followed by a cooldown, and afterExecution is not
\* invoked for it.
C40_FailedResultIsFailure ==
    [][/\ Len(callLog') > Len(callLog)
       /\ Last(callLog').outcome = "failres"
       => /\ servicePerformance'[Last(callLog').tool].failureCount
                 = servicePerformance[Last(callLog').tool].failureCount + 1
          /\ Len(toolErrors'[Last(callLog').tool])
                 = Len(toolErrors[Last(callLog').tool]) + 1
          /\ hooks.onError # "none" => Contains(Last(callLog').events, "onError")
          /\ ~Contains(Last(callLog').events, "afterExecution")
          /\ lastToolExecution'[Last(callLog').tool] = now'
          /\ toolTimeouts'[Last(callLog').tool] >= MIN_RETRY_DELAY]_vars

(***************************************************************************)
(* SpecSettle: an EnhancedPipeline whose stages resolve, throw or never    *)
(* settle, with the timers of the event loop firing: the race of a pending *)
(* attempt settles (the stage timer rejects it after STAGE_TIMEOUT at the  *)
(* latest) and the delay of a sleeping attempt runs out.                   *)
(***************************************************************************)
MaxSettleAdds == 2
MaxSettleRuns == 1

SettleStages ==
    {StageConfig("A", "pass", FALSE, {}, Unset, FALSE, "none"),
     StageConfig("B", "flaky", TRUE, {}, Unset, FALSE, "none"),
     StageConfig("B", "hang", TRUE, {}, 0, TRUE, "none"),
     StageConfig("C", "hang", FALSE, {}, 2, FALSE, "none"),
     StageConfig("C", "fail", TRUE, {}, 1, FALSE, "always")}

SettleAddStage ==
    /\ run.n = 0
    /\ addResult.n < MaxSettleAdds
    /\ \E stage \in SettleStages : addStage(stage)
    /\ UNCHANGED <<coordinatorVars, basicVars, sideVars>>

SettleProcess ==
    /\ run.n < MaxSettleRuns
    /\ background = << >>
    /\ process(ToolContext("read_file", "p1"))
    /\ UNCHANGED <<toolVars, basicVars, sideVars>>

SettleStageEvent == StageEvent({WithinLimits})

SettleBackgroundEvent == BackgroundEvent({WithinLimits})

SettleNext ==
    \/ SettleAddStage
    \/ SettleProcess
    \/ SettleStageEvent
    \/ SettleBackgroundEvent

SpecSettle ==
    /\ PipeInit /\ [][SettleNext]_vars
    /\ WF_vars(SettleStageEvent)
    /\ WF_vars(SettleBackgroundEvent)

\* no processSingleStage chain is past attempt maxRetries + 1 of its stage
AttemptsWithinCeiling ==
    \A i \in 1..Len(run.members) :
        run.members[i].retryCount <= CurrentStage(run.members[i]).maxRetries

Settled == run.status \in {"resolved", "rejected"}

TopLevelFields ==
    {"message", "mode", "workingDirectory", "requiresToolExecution", "toolExecution"}

\* the results of the members of the current group, in group order, in the
\* step in which the last of them completes
GroupResults ==
    [i \in 1..Len(run.members) |->
        IF IsActive(run.members[i])
        THEN ResultOf(run.members[i])
        ELSE run.members[i].context]

\* member i is the only one whose result differs from the group's input in
\* field f
OnlyChangedBy(i, f) ==
    /\ GroupResults[i][f] # run.context[f]
    /\ \A j \in 1..Len(run.members) : j # i => GroupResults[j][f] = run.context[f]

\* C36 as stated: when a group of two or more ends and exactly one member
\* changed a top-level field other than metadata while every other member
\* returned it as received, the context that goes on carries the changed
\* value, wherever the member sits in group order.
C36_SingleUpdateKept ==
    [][/\ run.status = "running" /\ Len(run.members) >= 2
       /\ run'.n = run.n
       /\ run'.status = "resolved" \/ Len(run'.groups) < Len(run.groups)
       => \A f \in TopLevelFields : \A i \in 1..Len(run.members) :
              OnlyChangedBy(i, f) => run'.context[f] = GroupResults[i][f]]_vars

(***************************************************************************)
(* SpecRuns: one EnhancedPipeline processed several times, with stages    *)
(* also registered between the runs                                        *)
(***************************************************************************)
MaxRunsAdds == 3
MaxRunsCalls == 2

RunsStages ==
    {StageConfig("A", "pass", FALSE, {}, Unset, FALSE, "none"),
     StageConfig("B", "pass", FALSE, {"A"}, Unset, FALSE, "none"),
     StageConfig("B", "flaky", TRUE, {}, Unset, FALSE, "none"),
     StageConfig("C", "fail", FALSE, {}, 0, FALSE, "none")}

RunsAddStage ==
    /\ run.status # "running"
    /\ addResult.n < MaxRunsAdds
    /\ \E stage \in RunsStages : addStage(stage)
    /\ UNCHANGED <<coordinatorVars, basicVars, sideVars>>

RunsProcess ==
    /\ run.n < MaxRunsCalls
    /\ background = << >>
    /\ process(ToolContext("read_file", "p1"))
    /\ UNCHANGED <<toolVars, basicVars, sideVars>>

RunsStageEvent == StageEvent({WithinLimits})

RunsNext ==
    \/ RunsAddStage
    \/ RunsProcess
    \/ RunsStageEvent

SpecRuns == PipeInit /\ [][RunsNext]_vars

\* the grouping organizeStages computes on a pipeline that has executed
\* nothing yet
FreshGrouping == organizeRemaining([i \in 1..Len(stages) |-> i], << >>, << >>)

\* the executionPath and the metrics a resolved call returns hold nothing
\* that was there when the call began
ResultOfThisRunOnly ==
    run.status = "resolved"
    => /\ run.pathStart = 0
       /\ run.errorStart = 0
       /\ run.warningStart = 0
       /\ run.recoveryStart = 0

\* the groups a process call would run do not depend on earlier runs
GroupingOfThisRunOnly ==
    run.status # "running" => organizeStages = FreshGrouping

\* C38 as stated: the executionPath and metrics a process call returns
\* describe that run only (no entry of an earlier call on the same
\* pipeline), and the stage grouping of a call does not depend on what
\* earlier calls executed.
C38_ResultDescribesOneRun == ResultOfThisRunOnly /\ GroupingOfThisRunOnly

(***************************************************************************)
(* What a rejected run still does                                          *)
(***************************************************************************)

\* C39 as stated: once a process call has rejected, no stage's process of
\* that run is invoked afterwards (every invocation is an entry pushed on
\* executionPath); in particular the other members of a parallel group
\* start no further retry attempt after the rejection.
C39_NothingRunsAfterRejection ==
    [][run.status = "rejected" /\ run'.n = run.n
       => executionPath' = executionPath]_vars

(***************************************************************************)
(* SpecDebug: TestDebugStage.process applied again and again to the       *)
(* context it returned, the caller recording test errors in between       *)
(***************************************************************************)
MaxDebugCalls == 6

DebugInit ==
    /\ CoordinatorInit /\ PipelineInit /\ BasicInit
    /\ AdaptiveInitWith(DefaultAdaptiveConfig)
    /\ libCall = [fn |-> "TestDebugStage.process", args |-> [context |-> PlainContext],
                  returned |-> FALSE, result |-> << >>, calls |-> 0]

\* the next call, on the context the last one returned
DebugProcess ==
    /\ libCall.calls < MaxDebugCalls
    /\ libCall.returned => libCall.result.status = "ok"
    /\ libCall' = [libCall EXCEPT
                      !.returned = TRUE,
                      !.result = TestDebugProcess(libCall.args.context),
                      !.args.context = TestDebugProcess(libCall.args.context).context,
                      !.calls = @ + 1]
    /\ UNCHANGED <<coordinatorVars, pipelineVars, basicVars, adaptiveVars>>

\* the caller records a failed fix in previousErrors
DebugRecordError ==
    /\ libCall.returned /\ libCall.result.status = "ok"
    /\ Len(libCall.args.context.testDebug.previousErrors) < MaxErrors
    /\ \E e \in TestErrors :
           libCall' = [libCall EXCEPT
                          !.args.context.testDebug.previousErrors = Append(@, e)]
    /\ UNCHANGED <<coordinatorVars, pipelineVars, basicVars, adaptiveVars>>

DebugNext ==
    \/ DebugProcess
    \/ DebugRecordError

SpecDebug == DebugInit /\ [][DebugNext]_vars

\* C34 as stated: the first call sets testDebug to fixAttempts 0 and no
\* previous errors; every later call returns with fixAttempts one higher,
\* and when that leaves fixAttempts at 3 or more the returned context
\* carries metadata.testDebugAnalysis, whatever previousErrors holds, the
\* empty list included.
C34_RepeatedDebugCalls ==
    [][libCall'.calls = libCall.calls + 1
       => IF libCall.args.context.testDebug = NoTestDebug
          THEN /\ libCall'.result.status = "ok"
               /\ libCall'.result.context.testDebug.fixAttempts = 0
               /\ libCall'.result.context.testDebug.previousErrors = << >>
          ELSE /\ libCall'.result.status = "ok"
               /\ libCall'.result.context.testDebug.fixAttempts
                      = libCall.args.context.testDebug.fixAttempts + 1
               /\ libCall'.result.context.testDebug.fixAttempts
                      >= HIGH_LEVEL_ANALYSIS_THRESHOLD
                  => \E kv \in libCall'.result.context.metadata :
                         kv[1] = "testDebugAnalysis"]_vars

(***************************************************************************)
(* PatternLearningSystem.addPattern (adaptive/PatternLearningSystem.ts)    *)
(*                                                                         *)
(* A stored pattern is [timestamp, inputSignature]; the timestamp is the  *)
(* one the caller put into the pattern, which need not be the time of the *)
(* call.                                                                   *)
(***************************************************************************)
MAX_PATTERNS == 1000

\* 7 * 24 * 60 * 60 * 1000
PATTERN_EXPIRY == 604800000

\* the filter of addPattern: now - p.timestamp < PATTERN_EXPIRY
UnexpiredInclusive(p, time) == time - p.timestamp <= PATTERN_EXPIRY

Unexpired(p, time) == time - p.timestamp < PATTERN_EXPIRY

MaxOf(values) == CHOOSE v \in values : \A w \in values : w <= v

\* patterns.sort((a, b) => b.timestamp - a.timestamp): the sort is stable,
\* so patterns of one timestamp keep their order
RECURSIVE SortedNewestFirst(_, _)
SortedNewestFirst(list, timestamps) ==
    IF timestamps = {} THEN << >>
    ELSE SelectSeq(list, LAMBDA p : p.timestamp = MaxOf(timestamps))
             \o SortedNewestFirst(list, timestamps \ {MaxOf(timestamps)})

\* this.patterns after addPattern(pattern) called at `time`
PatternsAfterAdd(list, pattern, time) ==
    LET kept == SelectSeq(list, LAMBDA p : Unexpired(p, time))
        pushed == Append(kept, pattern)
    IN  IF Len(pushed) > MAX_PATTERNS
        THEN SubSeq(SortedNewestFirst(pushed, {pushed[i].timestamp : i \in 1..Len(pushed)}),
                    1, MAX_PATTERNS)
        ELSE pushed

addPattern(pattern) ==
    storedPatterns' = PatternsAfterAdd(storedPatterns, pattern, now)

(***************************************************************************)
(* SpecPatterns: addPattern calls on a store that is empty or close to    *)
(* its cap, with the clock moving by half the expiry time between calls   *)
(***************************************************************************)
MaxPatternCalls == 3
MaxPatternTicks == 2

\* stores that earlier addPattern calls at StartTime have left
FilledStores ==
    {[i \in 1..n |-> [timestamp |-> StartTime - (i % m), inputSignature |-> "s1"]] :
        n \in {0, MAX_PATTERNS - 1, MAX_PATTERNS}, m \in 1..2}

PatternsInit ==
    /\ CoordinatorInit /\ PipelineInit /\ BasicInit
    /\ adaptiveConfig = DefaultAdaptiveConfig
    /\ toolProfiles = [t \in ToolNames |-> NoProfile]
    /\ plan = NoPlan
    /\ adaptiveTools = {}
    /\ adaptiveLog = << >>
    /\ storedPatterns \in FilledStores
    /\ libCall = [fn |-> "PatternLearningSystem.addPattern", args |-> << >>,
                  returned |-> FALSE, result |-> << >>, calls |-> 0]

\* the timestamps a caller puts into a pattern
PatternTimestamps == {now - PATTERN_EXPIRY, now - 1, now, now + 1}

\* one addPattern call; libCall keeps the pattern, the time of the call and
\* the store the call found
PatternsAdd ==
    /\ libCall.calls < MaxPatternCalls
    /\ \E ts \in PatternTimestamps :
           /\ addPattern([timestamp |-> ts, inputSignature |-> "s1"])
           /\ libCall' = [libCall EXCEPT
                             !.args = [pattern |-> [timestamp |-> ts,
                                                    inputSignature |-> "s1"],
                                       at |-> now,
                                       before |-> storedPatterns],
                             !.returned = TRUE,
                             !.calls = @ + 1]
    /\ UNCHANGED <<coordinatorVars, pipelineVars, basicVars,
                   adaptiveConfig, toolProfiles, plan, adaptiveTools, adaptiveLog>>

\* half the expiry time passes
PatternsTick ==
    /\ now + PATTERN_EXPIRY \div 2 <= StartTime + MaxPatternTicks * (PATTERN_EXPIRY \div 2)
    /\ Tick(PATTERN_EXPIRY \div 2)
    /\ UNCHANGED <<pipelineVars, basicVars, sideVars>>

PatternsNext ==
    \/ PatternsAdd
    \/ PatternsTick

SpecPatterns == PatternsInit /\ [][PatternsNext]_vars

\* the number of patterns of timestamp v in a list
CountOf(list, v) == Len(SelectSeq(list, LAMBDA p : p.timestamp = v))

TimestampsOf(list) == {list[i].timestamp : i \in 1..Len(list)}

\* the store the last call found, without the patterns whose age at the
\* time of the call was PATTERN_EXPIRY or more
KeptByLastCall ==
    SelectSeq(libCall.args.before,
              LAMBDA p : ~(libCall.args.at - p.timestamp >= PATTERN_EXPIRY))

PushedByLastCall == Append(KeptByLastCall, libCall.args.pattern)

\* C33: the store never holds more than MAX_PATTERNS patterns; an
\* addPattern call drops the stored patterns whose age at the time of the
\* call is PATTERN_EXPIRY or more and appends the new pattern, and it
\* removes further patterns only if that leaves more than MAX_PATTERNS, and
\* then none that is newer than a pattern it keeps.
C33_PatternStoreCapped ==
    /\ Len(storedPatterns) <= MAX_PATTERNS
    /\ libCall.returned
       => IF Len(PushedByLastCall) <= MAX_PATTERNS
          THEN storedPatterns = PushedByLastCall
          ELSE /\ \A v \in TimestampsOf(storedPatterns) :
                      CountOf(storedPatterns, v) <= CountOf(PushedByLastCall, v)
               /\ \A v \in TimestampsOf(PushedByLastCall) :
                      CountOf(storedPatterns, v) < CountOf(PushedByLastCall, v)
                      => \A w \in TimestampsOf(storedPatterns) : v <= w

\* a call that found the store full and nothing expired: the new pattern,
\* the newest, is kept and one of the oldest is gone
C33_Witness ==
    /\ libCall.returned
    /\ Len(libCall.args.before) = MAX_PATTERNS
    /\ KeptByLastCall = libCall.args.before
    /\ libCall.args.pattern.timestamp = libCall.args.at + 1
    /\ Len(storedPatterns) = MAX_PATTERNS
    /\ storedPatterns[1] = libCall.args.pattern
    /\ CountOf(storedPatterns, StartTime - 1) = CountOf(libCall.args.before, StartTime - 1) - 1
    /\ CountOf(libCall.args.before, StartTime - 1) > 0

(***************************************************************************)
(* EnhancedAdaptiveProcessor (adaptive/AdaptiveEngine.ts)                  *)
(*                                                                         *)
(* No hooks are installed (hooks is {} after construction).  What         *)
(* ResourceOptimizer.optimizeStrategy returns depends on the load of the  *)
(* machine; of its strategy the processor's control flow reads maxRetries *)
(* only, which calculateMaxRetries keeps within 1..5.                     *)
(***************************************************************************)
adaptiveRegisterTool(t) ==
    /\ adaptiveTools' = adaptiveTools \cup {t}
    /\ UNCHANGED <<adaptiveConfig, toolProfiles, plan, adaptiveLog, storedPatterns>>

\* mergeStrategies: the retry budget is the smaller of the two
MergedMaxRetries(planStrategy, resourceMaxRetries) ==
    Min2(planStrategy.retryStrategy.maxRetries, resourceMaxRetries)

\* the loop of executeWithStrategy from attempt `attempt` on; outcomes[k] is
\* what the k-th tool.execute does.  [threw, success, executes]: whether the
\* loop ended in the throw after it, the success flag of the result it
\* returned, and how often tool.execute was invoked
RECURSIVE executeWithStrategy(_, _, _)
executeWithStrategy(maxRetries, outcomes, attempt) ==
    IF ~(attempt < maxRetries)
    THEN [threw |-> TRUE, success |-> FALSE, executes |-> attempt]
    ELSE IF outcomes[attempt + 1] \in {"ok", "failres"}
    THEN [threw |-> FALSE, success |-> outcomes[attempt + 1] = "ok",
          executes |-> attempt + 1]
    ELSE executeWithStrategy(maxRetries, outcomes, attempt + 1)

\* EnhancedAdaptiveProcessor.process(context); the tool's result carries
\* metadata or not, and its timing and memory are those of `sample`
adaptiveProcess(context, outcomes, resourceMaxRetries, hasMetadata, sample) ==
    LET requires == context.requiresToolExecution
                        /\ context.toolExecution # NoToolExecution
        toolName == context.toolExecution.toolName
        registered == toolName \in adaptiveTools
        executionPlan == ExecutionPlanOf(toolName, "s1")
        maxRetries == MergedMaxRetries(executionPlan.strategy, resourceMaxRetries)
        result == executeWithStrategy(maxRetries, outcomes, 0)
        learns == requires /\ registered /\ ~result.threw /\ hasMetadata
        entry == [toolName |-> toolName, requires |-> requires,
                  registered |-> registered,
                  maxRetries |-> IF requires /\ registered THEN maxRetries ELSE 0,
                  executes |-> IF requires /\ registered THEN result.executes ELSE 0,
                  success |-> IF ~requires THEN TRUE
                              ELSE registered /\ ~result.threw /\ result.success]
    IN  /\ adaptiveLog' = Append(adaptiveLog, entry)
        /\ plan' = IF requires /\ registered THEN executionPlan ELSE plan
        /\ toolProfiles' =
               IF learns
               THEN [toolProfiles EXCEPT ![toolName] =
                        ProfiledWith(toolName,
                                     [success |-> result.success,
                                      executionTime |-> sample.executionTime,
                                      memoryPct |-> sample.memoryPct,
                                      signature |-> "s1"])]
               ELSE toolProfiles
        /\ storedPatterns' =
               IF learns
               THEN PatternsAfterAdd(storedPatterns,
                                     [timestamp |-> now, inputSignature |-> "s1"], now)
               ELSE storedPatterns
        /\ UNCHANGED <<adaptiveConfig, adaptiveTools>>

(***************************************************************************)
(* SpecLearn: one EnhancedAdaptiveProcessor, its tools registered and     *)
(* process called with what the tools do chosen freely                    *)
(***************************************************************************)
MaxLearnCalls == 2

\* Math.max(1, Math.floor(5 * (1 - currentLoad))): the least and the
\* greatest value
ResourceMaxRetries == {1, 5}

\* what the first, second and third tool.execute of a call do; a plan's
\* maxRetries, Math.ceil(3 * (1 - successRate)), is 3 at most
LearnOutcomes ==
    {<<"ok", "ok", "ok">>, <<"failres", "ok", "ok">>,
     <<"throws", "ok", "ok">>, <<"throws", "throws", "throws">>}

LearnContexts ==
    {ToolContext("read_file", "p1"), ToolContext("execute_command", "p1"),
     [ToolContext("read_file", "p1") EXCEPT !.requiresToolExecution = FALSE]}

LearnSamples == [executionTime : {0, 5000}, memoryPct : {0}]

LearnInit ==
    /\ CoordinatorInit /\ PipelineInit /\ BasicInit /\ LibInit
    /\ \E config \in AdaptiveConfigs : AdaptiveInitWith(config)

LearnRegisterTool ==
    /\ \E t \in ToolNames : t \notin adaptiveTools /\ adaptiveRegisterTool(t)
    /\ UNCHANGED <<coordinatorVars, pipelineVars, basicVars, libVars>>

LearnProcess ==
    /\ Len(adaptiveLog) < MaxLearnCalls
    /\ \E context \in LearnContexts, outcomes \in LearnOutcomes,
          resourceMaxRetries \in ResourceMaxRetries, hasMetadata \in BOOLEAN,
          sample \in LearnSamples :
           adaptiveProcess(context, outcomes, resourceMaxRetries, hasMetadata, sample)
    /\ UNCHANGED <<coordinatorVars, pipelineVars, basicVars, libVars>>

LearnNext ==
    \/ LearnRegisterTool
    \/ LearnProcess

SpecLearn == LearnInit /\ [][LearnNext]_vars

\* C37 as stated: every process call whose context requires tool execution
\* and names a registered tool invokes tool.execute at least once, whatever
\* the calls before it recorded about the tool.
C37_RegisteredToolExecuted ==
    \A i \in 1..Len(adaptiveLog) :
        adaptiveLog[i].requires /\ adaptiveLog[i].registered
        => adaptiveLog[i].executes >= 1

====
